---- MODULE Spec2Model ----
(***************************************************************************)
(* Document ingestion and retrieval pipeline of ai-profiles-creation:      *)
(* extraction (processors.py), upload and storage (the three back ends),   *)
(* chunking (document_processor.py), the embedding model singleton         *)
(* (analyzers.py) and the retrieval selector (service.py and               *)
(* document_service.py).                                                   *)
(*                                                                         *)
(* Conventions.  A Python string is a sequence of code points (numbers);   *)
(* a bytes object is a sequence of byte values.  A call that can raise is  *)
(* an operator returning a record [kind |-> "return", ...] or              *)
(* [kind |-> "raise", exc |-> class].  Schema objects (DocumentMetadata,   *)
(* DocumentCreate, DocumentInfo) carry the attributes that the service     *)
(* code reads and assigns.  Outcomes of third-party parsers (PyPDF2,       *)
(* python-docx, pandas, chardet, ...) are inputs of the model.             *)
(***************************************************************************)
EXTENDS Integers, Sequences, FiniteSets, TLC

VARIABLES
    exInput,      \* extraction: the (filename, file) pair of the last call, or NoCall
    exResult,     \* extraction: what extract_text_from_file did with it
    chunk_size,   \* DocumentProcessor.chunk_size
    chunk_overlap,\* DocumentProcessor.chunk_overlap
    chInput,      \* _chunk_text: the text argument
    chPc,         \* _chunk_text: "call", "loop" (at the while test), "done" (returned)
    chText,       \* _chunk_text: the local text after cleaning
    chStart,      \* _chunk_text: the local start
    chChunks,     \* _chunk_text: the local chunks (the return value when done)
    chWindows,    \* history: the (start, end) of every window sliced so far
    clock,        \* the wall clock, in seconds (time.time(), datetime.now())
    uuidNext,     \* the number of uuid4() values drawn so far
    bkFile,       \* src/backend: the documents.json file
    bkUploads,    \* src/backend: the ids whose uploaded file is on disk
    bkWriters,    \* src/backend: each writer's place in its read-modify-write
    aiIndex,      \* aiIntegration DocumentStore.document_index["documents"]
    aiChunks,     \* aiIntegration DocumentStore: the chunks files, by id
    documents,    \* services/documents DocumentService.documents, in dict order
    metadataFile, \* services/documents: DOCUMENTS_DIR/metadata.json
    datasets,     \* services/documents DocumentService.datasets
    tags,         \* services/documents DocumentService.tags
    contentFiles, \* services/documents: the DOCUMENTS_DIR/<id>.txt files
    embFiles,     \* services/documents: the EMBEDDINGS_DIR/<id>.npy files
    failedEmbeddings, \* history: the ids whose last generate_embedding failed
    _sentence_transformer, \* analyzers._sentence_transformer
    modelLoads,   \* history: how many times SentenceTransformer(...) returned
    dbDocuments,  \* services/document_service: db.data["documents"], in dict order
    opCall,       \* the last operation called on a store, or NoCall
    opResult,     \* what that operation returned or raised
    thPc,         \* get_sentence_transformer: where each calling thread is
    thModel       \* get_sentence_transformer: what each thread returned

exVars == <<exInput, exResult>>
chVars == <<chunk_size, chunk_overlap, chInput, chPc, chText, chStart, chChunks, chWindows>>
envVars == <<clock, uuidNext>>
bkVars == <<bkFile, bkUploads, bkWriters>>
aiVars == <<aiIndex, aiChunks>>
svcVars == <<documents, metadataFile, datasets, tags, contentFiles, embFiles, failedEmbeddings>>
mdlVars == <<_sentence_transformer, modelLoads>>
dbVars == <<dbDocuments>>
opVars == <<opCall, opResult>>
thVars == <<thPc, thModel>>
storeVars == <<envVars, bkVars, aiVars, svcVars, mdlVars, dbVars, opVars, thVars>>
vars == <<exVars, chVars, storeVars>>

NoCall == [kind |-> "none"]

\* ------------------------------------------------------------------------
\* Python exceptions
\* ------------------------------------------------------------------------

\* The exception classes (all below Exception) that the modelled calls raise.
ExcClasses ==
    {"UnicodeDecodeError", "LookupError", "ValueError", "AttributeError",
     "TypeError", "ImportError", "OSError"}

\* issubclass(exc, cls) for the classes above.
IsSubclass(exc, cls) ==
    \/ cls = "Exception"
    \/ cls = exc
    \/ (exc = "UnicodeDecodeError" /\ cls = "ValueError")

Return(v) == [kind |-> "return", value |-> v]
Raise(exc) == [kind |-> "raise", exc |-> exc]

\* try: body  except <classes>: handler   (handler is itself an outcome)
TryExcept(body, classes, handler) ==
    IF body.kind = "raise" /\ \E c \in classes : IsSubclass(body.exc, c)
    THEN handler
    ELSE body

\* ------------------------------------------------------------------------
\* Text helpers
\* ------------------------------------------------------------------------

\* str.isspace for the code points the model uses (space and the characters from tab to carriage return).
IsSpace(c) == c \in {32, 9, 10, 11, 12, 13}

Max(a, b) == IF a >= b THEN a ELSE b
Min(a, b) == IF a <= b THEN a ELSE b

\* len(text.split()): the number of maximal runs of non-whitespace.
WordCount(text) ==
    Cardinality({i \in 1..Len(text) :
        /\ ~IsSpace(text[i])
        /\ (i = 1 \/ IsSpace(text[i - 1]))})

\* math.ceil(a / b) for a >= 0, b > 0
PyCeil(a, b) == IF a % b = 0 THEN a \div b ELSE (a \div b) + 1

\* ------------------------------------------------------------------------
\* Codecs: bytes.decode(encoding)
\* ------------------------------------------------------------------------

\* The byte values files are made of: "A", space, the two bytes of UTF-8
\* "e-acute" (0xC3 0xA9) and 0xFF, which no UTF-8 text contains.
ByteAlphabet == {65, 32, 195, 169, 255}

IsContinuation(b) == b >= 128 /\ b <= 191

\* bytes.decode('utf-8') for one- and two-byte sequences; any other byte
\* >= 0x80 of ByteAlphabet is an invalid start byte.
RECURSIVE Utf8Chars(_)
Utf8Chars(bytes) ==
    IF bytes = <<>> THEN <<>>
    ELSE IF bytes[1] < 128 THEN <<bytes[1]>> \o Utf8Chars(Tail(bytes))
    ELSE <<(bytes[1] - 192) * 64 + (bytes[2] - 128)>> \o Utf8Chars(Tail(Tail(bytes)))

RECURSIVE Utf8Valid(_)
Utf8Valid(bytes) ==
    IF bytes = <<>> THEN TRUE
    ELSE IF bytes[1] < 128 THEN Utf8Valid(Tail(bytes))
    ELSE /\ bytes[1] >= 194 /\ bytes[1] <= 223
         /\ Len(bytes) >= 2
         /\ IsContinuation(bytes[2])
         /\ Utf8Valid(Tail(Tail(bytes)))

\* bytes.decode('latin-1'): byte b is code point b; never fails.
Latin1Chars(bytes) == [i \in 1..Len(bytes) |-> bytes[i]]

KnownCodecs == {"utf-8", "ascii", "latin-1"}

\* bytes.decode(encoding): the text, UnicodeDecodeError, or LookupError for a
\* codec name Python does not know.
Decode(bytes, encoding) ==
    IF encoding \notin KnownCodecs THEN Raise("LookupError")
    ELSE IF encoding = "latin-1" THEN Return(Latin1Chars(bytes))
    ELSE IF encoding = "ascii"
         THEN IF \A i \in 1..Len(bytes) : bytes[i] < 128
              THEN Return(Latin1Chars(bytes))
              ELSE Raise("UnicodeDecodeError")
    ELSE IF Utf8Valid(bytes) THEN Return(Utf8Chars(bytes))
    ELSE Raise("UnicodeDecodeError")

\* ------------------------------------------------------------------------
\* Extraction: services/documents/processors.py
\* ------------------------------------------------------------------------

WordsPerMinute == 200

\* Largest number of bytes of an uploaded file.
MaxFileLen == 2

ByteSeqs == UNION {[1..n -> ByteAlphabet] : n \in 0..MaxFileLen}

\* The extensions of the uploaded filenames, as typed.
RawExtensions ==
    {".txt", ".TXT", ".pdf", ".docx", ".doc", ".md", ".csv", ".xls", ".xlsx",
     ".json", ".JSON", ".html", ".htm", ".xml", ".pptx", ".ppt", ".epub",
     ".mobi", ".bin", ""}

\* str.lower() on an extension.
Lower(ext) ==
    CASE ext = ".TXT" -> ".txt"
      [] ext = ".JSON" -> ".json"
      [] OTHER -> ext

\* What chardet.detect reports: no guess, a codec Python has, or one it has
\* not (chardet names EUC-TW, for which Python has no codec).
DetectedEncodings == {"None", "utf-8", "ascii", "latin-1", "EUC-TW"}

\* What the format's parser does with the file: it succeeds or raises.
LibOutcomes == {"ok"} \cup ExcClasses

\* The texts a parser extracts from a well-formed file.
ParsedTexts == {<<>>, <<65>>, <<65, 32, 65>>}

JsonShapes == {"dict", "list", "scalar"}

\* A file: its bytes, and what the third-party libraries make of them.
File(bytes, detected, lib, parsed, shape) ==
    [bytes |-> bytes, detected |-> detected, lib |-> lib, parsed |-> parsed,
     shape |-> shape]

\* The uploads of one extension: the fields its extractor reads vary, the
\* others are fixed.
FilesFor(extension) ==
    IF extension = ".txt"
    THEN {File(b, d, "ok", <<>>, "dict") : b \in ByteSeqs, d \in DetectedEncodings}
    ELSE IF extension \in {".md", ".html", ".htm", ".xml", ".csv"}
    THEN {File(b, "None", l, Latin1Chars(b), "dict") : b \in ByteSeqs, l \in LibOutcomes}
    ELSE IF extension = ".json"
    THEN {File(b, "None", l, Latin1Chars(b), s) :
            b \in ByteSeqs, l \in {"ok", "ValueError"}, s \in JsonShapes}
    ELSE {File(<<65>>, "None", l, p, "dict") : l \in LibOutcomes, p \in ParsedTexts}

Uploads ==
    {[kind |-> "call", stem |-> <<114>>, ext |-> e, file |-> f] :
        e \in RawExtensions, f \in UNION {FilesFor(Lower(x)) : x \in RawExtensions}}

\* DocumentMetadata(file_size=..., title=..., file_type=...), taken as an
\* object that carries the attributes the extractors give it (the class of
\* schemas/document.py declares none of these).
NewMetadata(file_size, title, file_type) ==
    [file_size |-> file_size, title |-> title, file_type |-> file_type,
     word_count |-> -1, read_time_minutes |-> -1, description |-> "None"]

\* The text an extractor returns: genuine content, or a diagnostic naming
\* the failure.
Content(chars) == [tag |-> "content", chars |-> chars, exc |-> "None"]
Diagnostic(tag, exc) == [tag |-> tag, chars |-> <<>>, exc |-> exc]

Pair(text, metadata) == [text |-> text, metadata |-> metadata]

process_text_metadata(content, existing_metadata) ==
    [existing_metadata EXCEPT
        !.word_count = WordCount(content),
        !.read_time_minutes = PyCeil(WordCount(content), WordsPerMinute)]

\* The parser's outcome on the file: its text, or the exception it raises.
Parse(file) == IF file.lib = "ok" THEN Return(file.parsed) ELSE Raise(file.lib)

\* file.read().decode('utf-8') followed by the parser.
DecodeThenParse(file) ==
    IF Decode(file.bytes, "utf-8").kind = "raise"
    THEN Decode(file.bytes, "utf-8")
    ELSE Parse(file)

\* The shape shared by the per-format extractors: the body, wrapped in
\* "except Exception" returning the diagnostic and the metadata.
Extractor(body, metadata, tag) ==
    TryExcept(
        IF body.kind = "raise" THEN body
        ELSE Return(Pair(Content(body.value),
                         process_text_metadata(body.value, metadata))),
        {"Exception"},
        Return(Pair(Diagnostic(tag, IF body.kind = "raise" THEN body.exc ELSE "None"),
                    metadata)))

_extract_from_pdf(file, metadata) == Extractor(Parse(file), metadata, "Error extracting text")
_extract_from_docx(file, metadata) == Extractor(Parse(file), metadata, "Error extracting text")
_extract_from_excel(file, metadata) == Extractor(Parse(file), metadata, "Error extracting text")
_extract_from_markdown(file, metadata) ==
    Extractor(DecodeThenParse(file), metadata, "Error extracting text")
_extract_from_html(file, metadata) ==
    Extractor(DecodeThenParse(file), metadata, "Error extracting text")
_extract_from_xml(file, metadata) ==
    Extractor(DecodeThenParse(file), metadata, "Error extracting text from XML")
_extract_from_csv(file, metadata) ==
    Extractor(Parse(file), metadata, "Error extracting text from CSV")

\* json.loads, then len(data) for a list and data.keys() otherwise: a scalar
\* has no keys() and raises AttributeError inside the try.
_extract_from_json(file, metadata) ==
    Extractor(
        IF DecodeThenParse(file).kind = "raise" THEN DecodeThenParse(file)
        ELSE IF file.shape = "scalar" THEN Raise("AttributeError")
        ELSE DecodeThenParse(file),
        metadata, "Error extracting text")

\* "except ImportError" comes first: a missing library gives the placeholder.
_extract_from_ppt(file, metadata) ==
    IF file.lib = "ImportError"
    THEN Return(Pair(Diagnostic("missing library", "ImportError"), metadata))
    ELSE Extractor(Parse(file), metadata, "Error extracting text from PowerPoint")

_extract_from_ebook(file, metadata) ==
    IF file.lib = "ImportError"
    THEN Return(Pair(Diagnostic("missing library", "ImportError"), metadata))
    ELSE Extractor(Parse(file), metadata, "Error extracting text from eBook")

\* The ".txt" branch: decode with the detected encoding (utf-8 when chardet
\* has no guess); UnicodeDecodeError falls back to latin-1; anything else
\* the decoder raises leaves the branch.
ExtractTxt(file, metadata) ==
    LET encoding == IF file.detected = "None" THEN "utf-8" ELSE file.detected
        content == TryExcept(Decode(file.bytes, encoding), {"UnicodeDecodeError"},
                             Decode(file.bytes, "latin-1"))
    IN  IF content.kind = "raise" THEN content
        ELSE Return(Pair(Content(content.value),
                         process_text_metadata(content.value, metadata)))

\* The dispatch on the extension, inside the function's try block.
ExtractDispatch(extension, file, metadata) ==
    IF extension = ".txt" THEN ExtractTxt(file, metadata)
    ELSE IF extension = ".pdf" THEN _extract_from_pdf(file, metadata)
    ELSE IF extension \in {".docx", ".doc"} THEN _extract_from_docx(file, metadata)
    ELSE IF extension = ".md" THEN _extract_from_markdown(file, metadata)
    ELSE IF extension = ".csv" THEN _extract_from_csv(file, metadata)
    ELSE IF extension \in {".xls", ".xlsx"} THEN _extract_from_excel(file, metadata)
    ELSE IF extension = ".json" THEN _extract_from_json(file, metadata)
    ELSE IF extension \in {".html", ".htm"} THEN _extract_from_html(file, metadata)
    ELSE IF extension = ".xml" THEN _extract_from_xml(file, metadata)
    ELSE IF extension \in {".pptx", ".ppt"} THEN _extract_from_ppt(file, metadata)
    ELSE IF extension \in {".epub", ".mobi"} THEN _extract_from_ebook(file, metadata)
    ELSE Return(Pair(Diagnostic("Unsupported file type", "None"), metadata))

\* The outer handler narrowed to the decoding error alone.
OuterHandlerNarrow == {"UnicodeDecodeError"}

\* The classes the function's outer handler catches.
OuterHandlerClasses == {"Exception"}

extract_text_from_file(file, filename) ==
    LET extension == Lower(filename.ext)
        metadata == NewMetadata(Len(file.bytes), filename.stem, extension)
        body == ExtractDispatch(extension, file, metadata)
    IN  TryExcept(body, OuterHandlerClasses,
            Return(Pair(Diagnostic("Error extracting text from file",
                                   IF body.kind = "raise" THEN body.exc ELSE "None"),
                        metadata)))

\* One call of extract_text_from_file (the function keeps no state between
\* calls, so one call per behaviour covers it).
ExtractCall ==
    \E u \in Uploads :
        /\ exInput = NoCall
        /\ exInput' = u
        /\ exResult' = extract_text_from_file(u.file, [stem |-> u.stem, ext |-> u.ext])
        /\ UNCHANGED <<chVars, storeVars>>

ExtractInit ==
    /\ exInput = NoCall
    /\ exResult = NoCall

\* The extensions whose extractor hands the file to a third-party parser.
ParserExtensions ==
    {".pdf", ".docx", ".doc", ".md", ".csv", ".xls", ".xlsx", ".json", ".html",
     ".htm", ".xml", ".pptx", ".ppt", ".epub", ".mobi"}

\* C1: for every file content and every filename, extract_text_from_file
\* returns a (text, metadata) pair and never propagates an exception; when
\* the parser or the decoder failed, the text is a diagnostic naming the
\* failure, not content.
C1_ExtractNeverRaises ==
    exInput.kind = "call" =>
        /\ exResult.kind = "return"
        /\ DOMAIN exResult.value = {"text", "metadata"}
        /\ exResult.value.metadata.file_size = Len(exInput.file.bytes)
        /\ (Lower(exInput.ext) \in ParserExtensions /\ exInput.file.lib # "ok")
              => /\ exResult.value.text.tag # "content"
                 /\ exResult.value.text.exc \in {exInput.file.lib, "UnicodeDecodeError"}
        /\ (Lower(exInput.ext) = ".txt" /\ exInput.file.detected \notin KnownCodecs \cup {"None"})
              => exResult.value.text.tag = "Error extracting text from file"

\* A text upload whose detected codec Python does not have: the decoder's
\* LookupError reached the outer handler and came back as a diagnostic.
C1_Witness ==
    /\ exInput.kind = "call"
    /\ Lower(exInput.ext) = ".txt"
    /\ exInput.file.detected = "EUC-TW"
    /\ exResult.kind = "return"
    /\ exResult.value.text.tag = "Error extracting text from file"
    /\ exResult.value.text.exc = "LookupError"

\* ------------------------------------------------------------------------
\* Chunking: utils/document_processor.py, DocumentProcessor._chunk_text
\* ------------------------------------------------------------------------

DefaultChunkSize == 1000
DefaultChunkOverlap == 200
LookBack == 100

\* text[a:b] with Python's clamping and negative indices.
PySlice(text, a, b) ==
    LET n == Len(text)
        lo == IF a < 0 THEN Max(n + a, 0) ELSE Min(a, n)
        hi == IF b < 0 THEN Max(n + b, 0) ELSE Min(b, n)
    IN  IF lo >= hi THEN <<>> ELSE SubSeq(text, lo + 1, hi)

\* The index of the last non-whitespace character at or before i (0: none).
RECURSIVE LastNonSpace(_, _)
LastNonSpace(text, i) ==
    IF i = 0 \/ ~IsSpace(text[i]) THEN i ELSE LastNonSpace(text, i - 1)

\* The index of the first non-whitespace character at or after i (Len+1: none).
RECURSIVE FirstNonSpace(_, _)
FirstNonSpace(text, i) ==
    IF i > Len(text) \/ ~IsSpace(text[i]) THEN i ELSE FirstNonSpace(text, i + 1)

\* str.strip()
Strip(text) ==
    IF FirstNonSpace(text, 1) > Len(text) THEN <<>>
    ELSE SubSeq(text, FirstNonSpace(text, 1), LastNonSpace(text, Len(text)))

\* re.sub(r'\s+', ' ', text).strip(): every run of whitespace becomes one
\* space, and the runs at both ends go.
CleanText(text) ==
    LET last == LastNonSpace(text, Len(text))
        Keep(i) == /\ i <= last
                   /\ \/ ~IsSpace(text[i])
                      \/ (i > 1 /\ ~IsSpace(text[i - 1]))
        kept == SelectSeq([i \in 1..Len(text) |-> i], Keep)
    IN  [j \in 1..Len(kept) |-> IF IsSpace(text[kept[j]]) THEN 32 ELSE text[kept[j]]]

\* The characters after which a window may be cut: '.', '!', '?' and ' '.
BreakChars == {46, 33, 63, 32}

\* The backward search of lines 205-208: the first i in
\* range(end, max(end - 100, start), -1) with text[i-1] a break character and
\* text[i:i+1] != ''; end itself when there is none.
BreakPoint(text, start, end) ==
    LET hits == {i \in (Max(end - LookBack, start) + 1)..end :
                    /\ text[i] \in BreakChars      \* text[i-1], 0-based
                    /\ i < Len(text)}
    IN  IF hits = {} THEN end ELSE CHOOSE i \in hits : \A j \in hits : j <= i

\* The end of the window that starts at start (lines 199-208).
WindowEnd(text, start, size) ==
    LET end == Min(start + size, Len(text))
    IN  IF start > 0 /\ end < Len(text) THEN BreakPoint(text, start, end) ELSE end

\* Line 214: the next start, given the window's end.
NextStart(text, end, overlap) == IF end < Len(text) THEN end - overlap ELSE end

\* ---- inputs of _chunk_text

\* Largest number of characters of a text chunked with a small configuration.
MaxSmallText == 5

\* Largest chunk_size of the small configurations.
MaxSmallSize == 4

\* Most windows a call is followed through.
MaxWindows == 6

SmallAlphabet == {97, 32, 46}

SmallTexts == UNION {[1..n -> SmallAlphabet] : n \in 0..MaxSmallText}

\* Character i of the text made of words of `word` letters joined by sep.
PatternChar(word, sep, i) ==
    LET r == (i - 1) % (word + Len(sep))
    IN  IF r < word THEN 97 ELSE sep[r - word + 1]

\* The first n characters of that text, after the leading characters lead.
PatternText(lead, word, sep, n) ==
    lead \o [i \in 1..n |-> PatternChar(word, sep, i)]

WordLengths == {4, 9, 99, 199, 3000}
Separators == {<<32>>, <<46>>, <<46, 32>>, <<32, 10>>, <<33>>}
Leads == {<<>>, <<9, 32>>}
LongLengths == {0, 1, 1000, 1001, 1799, 1800, 1801, 2599}

LongTexts ==
    {PatternText(l, w, s, n) :
        l \in Leads, w \in WordLengths, s \in Separators, n \in LongLengths}

\* The processor configurations and the texts given to each: the default
\* one on long texts, small ones on every short text.
ChunkInputs ==
    {[size |-> DefaultChunkSize, overlap |-> DefaultChunkOverlap, text |-> t] :
        t \in LongTexts}
    \cup
    {[size |-> s, overlap |-> o, text |-> t] :
        s \in 2..MaxSmallSize, o \in 0..(MaxSmallSize - 1), t \in SmallTexts}

\* ---- the function, one loop iteration per step

\* DocumentProcessor(chunk_size, chunk_overlap) and a call _chunk_text(text).
ChunkInit ==
    \E c \in ChunkInputs :
        /\ c.overlap < c.size
        /\ chunk_size = c.size
        /\ chunk_overlap = c.overlap
        /\ chInput = c.text
        /\ chPc = "call"
        /\ chText = <<>>
        /\ chStart = 0
        /\ chChunks = <<>>
        /\ chWindows = <<>>

\* Lines 187-195: an empty text returns []; otherwise clean it and enter the loop.
ChunkBegin ==
    /\ chPc = "call"
    /\ IF chInput = <<>>
       THEN chPc' = "done" /\ chText' = <<>>
       ELSE chPc' = "loop" /\ chText' = CleanText(chInput)
    /\ UNCHANGED <<chunk_size, chunk_overlap, chInput, chStart, chChunks, chWindows>>
    /\ UNCHANGED <<exVars, storeVars>>

\* Lines 197-214: one iteration of the while loop.
ChunkStep ==
    /\ chPc = "loop"
    /\ chStart < Len(chText)
    /\ Len(chChunks) < MaxWindows
    /\ LET end == WindowEnd(chText, chStart, chunk_size)
       IN  /\ chChunks' = Append(chChunks, Strip(PySlice(chText, chStart, end)))
           /\ chWindows' = Append(chWindows, [start |-> chStart, end |-> end])
           /\ chStart' = NextStart(chText, end, chunk_overlap)
    /\ UNCHANGED <<chunk_size, chunk_overlap, chInput, chPc, chText>>
    /\ UNCHANGED <<exVars, storeVars>>

\* Lines 197 and 216: the loop test fails and the chunks are returned.
ChunkReturn ==
    /\ chPc = "loop"
    /\ chStart >= Len(chText)
    /\ chPc' = "done"
    /\ UNCHANGED <<chunk_size, chunk_overlap, chInput, chText, chStart, chChunks, chWindows>>
    /\ UNCHANGED <<exVars, storeVars>>

ChunkIdle ==
    /\ chunk_size = DefaultChunkSize
    /\ chunk_overlap = DefaultChunkOverlap
    /\ chInput = <<>>
    /\ chPc = "idle"
    /\ chText = <<>>
    /\ chStart = 0
    /\ chChunks = <<>>
    /\ chWindows = <<>>

ChunkNext == ChunkBegin \/ ChunkStep \/ ChunkReturn

\* ------------------------------------------------------------------------
\* Claims on _chunk_text
\* ------------------------------------------------------------------------

\* The chunks joined in order, the first `overlap` characters of every chunk
\* after the first dropped.
RECURSIVE Reassemble(_, _)
Reassemble(chunks, overlap) ==
    IF chunks = <<>> THEN <<>>
    ELSE IF Len(chunks) = 1 THEN chunks[1]
    ELSE LET last == chunks[Len(chunks)]
         IN  Reassemble(SubSeq(chunks, 1, Len(chunks) - 1), overlap)
                 \o PySlice(last, overlap, Len(last))

\* C3: with chunk_size 1000 and overlap 200, the returned chunks joined in
\* order, the first 200 characters of every chunk after the first dropped,
\* are exactly the whitespace-normalized input text.
C3_ReassembleIsNormalizedText ==
    (chPc = "done" /\ chunk_size = DefaultChunkSize /\ chunk_overlap = DefaultChunkOverlap)
        => Reassemble(chChunks, DefaultChunkOverlap) = CleanText(chInput)

\* ------------------------------------------------------------------------
\* Upload: the three upload paths and their stores
\* ------------------------------------------------------------------------

\* _chunk_text as a function: the loop of ChunkStep run to its end.
RECURSIVE ChunkLoop(_, _, _, _, _)
ChunkLoop(text, start, chunks, size, overlap) ==
    IF start >= Len(text) \/ Len(chunks) >= MaxWindows THEN chunks
    ELSE LET end == WindowEnd(text, start, size)
         IN  ChunkLoop(text, NextStart(text, end, overlap),
                       Append(chunks, Strip(PySlice(text, start, end))),
                       size, overlap)

_chunk_text(text, size, overlap) ==
    IF text = <<>> THEN <<>>
    ELSE ChunkLoop(CleanText(text), 0, <<>>, size, overlap)

\* ---- src/backend: DocumentService over documents.json

\* settings.allowed_extensions_list, each with the dot that
\* splitext(...)[1].lower().strip(".") removes.
allowed_extensions_list == {".pdf", ".docx", ".txt", ".csv", ".xlsx"}

\* The writers of documents.json that can be between their read and their
\* write at the same time.
Writers == {1, 2}

\* A writer outside every operation.
WriterIdle == [pc |-> "idle"]

\* _ensure_dirs: documents.json holds {"documents": []}.
BkInit ==
    /\ bkFile = [valid |-> TRUE, documents |-> <<>>]
    /\ bkUploads = {}
    /\ bkWriters = [w \in Writers |-> WriterIdle]

\* _read_documents: the stored list, or [] when the file does not parse.
_read_documents(file) == IF file.valid THEN file.documents ELSE <<>>

\* json.dump accepts str, int, bool, None, list and dict (and the str-based
\* enums); a datetime value raises TypeError.
JsonSerializable(doc) == doc.upload_date # "datetime"

\* _write_documents: open(..., "w") truncates the file and json.dump writes
\* it piece by piece, so a TypeError part-way leaves a file that does not
\* parse; the exception is re-raised.
_write_documents(docs) ==
    IF \A i \in 1..Len(docs) : JsonSerializable(docs[i])
    THEN [file |-> [valid |-> TRUE, documents |-> docs], outcome |-> Return("None")]
    ELSE [file |-> [valid |-> FALSE, documents |-> <<>>], outcome |-> Raise("TypeError")]

\* DocumentInDB(...).dict(): upload_date is a datetime object.
DocumentInDB(id, document_type, status) ==
    [id |-> id, document_type |-> document_type, status |-> status,
     upload_date |-> "datetime", processing_error |-> "None"]

\* update_document_status on the file: the record of that id rewritten and
\* the list written back; nothing when the id is absent.
update_document_status(file, id, status, error) ==
    LET docs == _read_documents(file)
        hits == {i \in 1..Len(docs) : docs[i].id = id}
    IN  IF hits = {} THEN [file |-> file, outcome |-> Return("None")]
        ELSE LET i == CHOOSE h \in hits : \A g \in hits : h <= g
             IN  _write_documents(
                     [docs EXCEPT ![i] = [@ EXCEPT !.status = status,
                                                   !.processing_error =
                                                       IF error = "None" THEN @ ELSE error]])

\* process_document on the file: absent record -> None; else status
\* "processing", the type's parser, then "completed" or, on any exception,
\* "failed".
process_document_bk(file, id, lib) ==
    LET docs == _read_documents(file)
    IN  IF \A i \in 1..Len(docs) : docs[i].id # id
        THEN [file |-> file, outcome |-> Return("None")]
        ELSE LET processing == update_document_status(file, id, "processing", "None")
             IN  IF processing.outcome.kind = "raise" THEN processing
                 ELSE IF lib = "ok"
                 THEN update_document_status(processing.file, id, "completed", "None")
                 ELSE update_document_status(processing.file, id, "failed", lib)

\* Most uploads (over all paths) a behaviour makes.
MaxUploads == 2

\* The uploads given to the stores: a sample of the extensions, every
\* parser outcome standing for its class.
StoreExtensions == {".txt", ".TXT", ".pdf", ".md", ".bin", ""}

StoreUploads ==
    {u \in Uploads :
        /\ u.ext \in StoreExtensions
        /\ u.file.bytes \in {<<65>>, <<255>>}
        /\ u.file.lib \in {"ok", "ValueError", "ImportError"}
        /\ u.file.detected \in {"None", "EUC-TW"}
        /\ u.file.parsed \in {<<>>, <<65>>}
        /\ u.file.shape = "dict"
        /\ u.file \in FilesFor(Lower(u.ext))}

\* DocumentService.create_document of src/backend, with the router's
\* document_type taken from the extension.
BkCreateDocument ==
    \E u \in StoreUploads :
        /\ uuidNext < MaxUploads
        /\ opCall' = [kind |-> "call", op |-> "backend.create_document",
                      stem |-> u.stem, ext |-> u.ext, file |-> u.file]
        /\ IF Lower(u.ext) \notin allowed_extensions_list
           THEN /\ opResult' = Raise("HTTP 400")
                /\ UNCHANGED <<uuidNext, bkFile, bkUploads>>
           ELSE LET document_id == uuidNext + 1
                    document == DocumentInDB(document_id, Lower(u.ext), "pending")
                    written == _write_documents(Append(_read_documents(bkFile), document))
                    processed == process_document_bk(written.file, document_id, u.file.lib)
                    failed == update_document_status(processed.file, document_id,
                                                     "failed", processed.outcome.exc)
                IN  /\ uuidNext' = document_id
                    /\ bkUploads' = bkUploads \cup {document_id}
                    /\ IF written.outcome.kind = "raise"
                       THEN /\ bkFile' = written.file
                            /\ opResult' = written.outcome
                       ELSE IF processed.outcome.kind = "return"
                       THEN /\ bkFile' = processed.file
                            /\ opResult' = Return(document)
                       ELSE /\ bkFile' = failed.file
                            /\ opResult' = IF failed.outcome.kind = "raise"
                                           THEN failed.outcome
                                           ELSE Return(document)
        /\ UNCHANGED <<clock, bkWriters, aiVars, svcVars, mdlVars, dbVars, thVars>>
        /\ UNCHANGED <<exVars, chVars>>

\* ---- aiIntegration: /api/upload over DocumentProcessor and DocumentStore

AiInit ==
    /\ aiIndex = <<>>
    /\ aiChunks = <<>>

\* dict[key] = value
DictSet(dict, key, value) ==
    [k \in DOMAIN dict \cup {key} |-> IF k = key THEN value ELSE dict[k]]

\* del dict[key]
DictDel(dict, key) == [k \in DOMAIN dict \ {key} |-> dict[k]]

\* str.lower() on a text.
LowerChars(text) ==
    [i \in 1..Len(text) |-> IF text[i] >= 65 /\ text[i] <= 90 THEN text[i] + 32 ELSE text[i]]

\* filename.split('.')[-1].lower(): the part after the last dot, the whole
\* name when it has no dot (a file named "txt" counts as a text file).
LastDotPart(stem, ext) ==
    IF ext # "" THEN Lower(ext)
    ELSE CASE LowerChars(stem) = <<116, 120, 116>> -> ".txt"
           [] LowerChars(stem) = <<99, 115, 118>> -> ".csv"
           [] LowerChars(stem) = <<112, 100, 102>> -> ".pdf"
           [] LowerChars(stem) = <<100, 111, 99, 120>> -> ".docx"
           [] OTHER -> ""

\* self.supported_formats: txt, docx, csv, and pdf when PyMuPDF imported.
supported_formats(pdf_available) ==
    {".txt", ".docx", ".csv"} \cup (IF pdf_available THEN {".pdf"} ELSE {})

\* _process_txt: utf-8, then latin-1.
_process_txt(file) ==
    TryExcept(Decode(file.bytes, "utf-8"), {"UnicodeDecodeError"},
              TryExcept(Decode(file.bytes, "latin-1"), {"Exception"}, Return(<<>>)))

\* _process_pdf, _process_docx, _process_csv: the parser's text, "" when it raises.
_process_parsed(file) == TryExcept(Parse(file), {"Exception"}, Return(<<>>))

\* DocumentProcessor.process_document: ValueError for a format it does not
\* support, else the chunks of the extracted text. PyMuPDF is missing when
\* the file's parser outcome is ImportError.
process_document(file, stem, ext, size, overlap) ==
    LET file_ext == LastDotPart(stem, ext)
        text == IF file_ext = ".txt" THEN _process_txt(file) ELSE _process_parsed(file)
    IN  IF file_ext \notin supported_formats(file.lib # "ImportError")
        THEN Raise("ValueError")
        ELSE Return(_chunk_text(text.value, size, overlap))

\* The id f"{int(time.time())}_{filename}": the time has no underscore, so
\* the pair determines the string and the string the pair.
AiDocId(time, stem, ext) == <<time, stem, ext>>

\* DocumentStore.add_document
add_document(time, stem, ext, chunks) ==
    [doc_id |-> AiDocId(time, stem, ext),
     index |-> DictSet(aiIndex, AiDocId(time, stem, ext),
                       [filename |-> <<stem, ext>>, timestamp |-> time,
                        chunk_count |-> Len(chunks)]),
     chunks |-> DictSet(aiChunks, AiDocId(time, stem, ext), chunks)]

\* main.upload_file: process_document, then add_document; any exception
\* becomes HTTP 500.
AiUploadFile ==
    \E u \in StoreUploads :
        LET chunks == process_document(u.file, u.stem, u.ext,
                                       DefaultChunkSize, DefaultChunkOverlap)
            added == add_document(clock, u.stem, u.ext, chunks.value)
        IN  /\ Cardinality(DOMAIN aiIndex) + uuidNext < MaxUploads
            /\ opCall' = [kind |-> "call", op |-> "main.upload_file",
                          stem |-> u.stem, ext |-> u.ext, file |-> u.file]
            /\ IF chunks.kind = "raise"
               THEN /\ opResult' = Raise("HTTP 500")
                    /\ UNCHANGED aiVars
               ELSE /\ aiIndex' = added.index
                    /\ aiChunks' = added.chunks
                    /\ opResult' = Return(added.doc_id)
            /\ UNCHANGED <<envVars, bkVars, svcVars, mdlVars, dbVars, thVars>>
            /\ UNCHANGED <<exVars, chVars>>

\* ---- services/documents: DocumentService (the singleton document_service)

\* __init__ with no metadata.json on disk.
SvcInit ==
    /\ documents = <<>>
    /\ metadataFile = <<>>
    /\ datasets = <<>>
    /\ tags = <<>>
    /\ contentFiles = <<>>
    /\ embFiles = <<>>
    /\ failedEmbeddings = {}

\* The characters of a diagnostic text: a tag, a colon and the exception's
\* message ("E: e" stands for all of them).
DiagnosticChars == <<69, 58, 32, 101>>

\* The Python string of an extracted text.
TextChars(text) == IF text.tag = "content" THEN text.chars ELSE DiagnosticChars

get_document_type_from_extension(extension) ==
    CASE extension = ".txt" -> "TEXT"
      [] extension = ".pdf" -> "PDF"
      [] extension \in {".docx", ".doc"} -> "DOCX"
      [] extension = ".md" -> "MARKDOWN"
      [] extension = ".csv" -> "CSV"
      [] extension = ".json" -> "JSON"
      [] extension \in {".xls", ".xlsx"} -> "EXCEL"
      [] extension \in {".html", ".htm"} -> "HTML"
      [] OTHER -> "OTHER"

\* DocumentCreate(name=..., content=..., type=..., ...)
DocumentCreate(name, content, type, dataset_id, tag_ids, metadata) ==
    [name |-> name, content |-> content, type |-> type, dataset_id |-> dataset_id,
     tags |-> tag_ids, metadata |-> metadata]

\* How often tag_id occurs in a list of tags.
TagCount(tag_ids, tag_id) == Cardinality({i \in 1..Len(tag_ids) : tag_ids[i] = tag_id})

\* create_document: what it leaves in the service and returns. doc_id is
\* the uuid drawn, disk_ok whether the content file could be written.
create_document(doc, doc_id, disk_ok) ==
    LET document ==
            [id |-> doc_id, name |-> doc.name, type |-> doc.type,
             content |-> doc.content, dateAdded |-> clock, embedding |-> FALSE,
             dataset_id |-> doc.dataset_id, tags |-> doc.tags,
             metadata |-> process_text_metadata(TextChars(doc.content), doc.metadata),
             favorite |-> FALSE, content_error |-> ~disk_ok]
    IN  [documents |-> Append(documents, document),
         metadataFile |-> Append(documents, document),
         contentFiles |-> IF disk_ok THEN DictSet(contentFiles, doc_id, doc.content)
                          ELSE contentFiles,
         datasets |-> [d \in DOMAIN datasets |->
                          IF d = doc.dataset_id
                          THEN [datasets[d] EXCEPT !.document_count = @ + 1]
                          ELSE datasets[d]],
         tags |-> [t \in DOMAIN tags |->
                      [tags[t] EXCEPT !.document_count = @ + TagCount(doc.tags, t)]],
         outcome |-> Return(document)]

\* upload_document: extract, then create_document; an exception of the
\* extraction propagates before anything is stored.
upload_document(u, dataset_id, tag_ids, doc_id, disk_ok) ==
    LET extracted == extract_text_from_file(u.file, [stem |-> u.stem, ext |-> u.ext])
    IN  IF extracted.kind = "raise"
        THEN [documents |-> documents, metadataFile |-> metadataFile,
              contentFiles |-> contentFiles,
              datasets |-> datasets, tags |-> tags, outcome |-> extracted]
        ELSE create_document(
                 DocumentCreate(u.stem, extracted.value.text,
                                get_document_type_from_extension(Lower(u.ext)),
                                dataset_id, tag_ids, extracted.value.metadata),
                 doc_id, disk_ok)

\* The state change of one upload_document call.
SvcUploaded(u, dataset_id, tag_ids, disk_ok) ==
    LET done == upload_document(u, dataset_id, tag_ids, uuidNext + 1, disk_ok)
    IN  /\ opCall' = [kind |-> "call", op |-> "service.upload_document",
                      stem |-> u.stem, ext |-> u.ext, file |-> u.file]
        /\ opResult' = done.outcome
        /\ uuidNext' = IF done.outcome.kind = "raise" THEN uuidNext ELSE uuidNext + 1
        /\ documents' = done.documents
        /\ metadataFile' = done.metadataFile
        /\ contentFiles' = done.contentFiles
        /\ datasets' = done.datasets
        /\ tags' = done.tags
        /\ UNCHANGED <<clock, embFiles, failedEmbeddings, bkVars, aiVars, mdlVars, dbVars, thVars>>
        /\ UNCHANGED <<exVars, chVars>>

\* /documents/upload: document_service.upload_document on any file.
SvcUploadDocument ==
    \E u \in StoreUploads, disk_ok \in BOOLEAN :
        /\ Cardinality(DOMAIN aiIndex) + uuidNext < MaxUploads
        /\ SvcUploaded(u, "None", <<>>, disk_ok)

EnvInit ==
    /\ clock = 0
    /\ uuidNext = 0
    /\ opCall = NoCall
    /\ opResult = NoCall

\* ---- the other stores before any call

\* No JsonDatabase file yet: db.data is {} and "documents" is created on
\* the first create_document.
DbInit == dbDocuments = <<>>

\* Module import: _sentence_transformer = None.
MdlInit ==
    /\ _sentence_transformer = 0
    /\ modelLoads = 0

\* The threads that may call get_sentence_transformer at once.
Threads == {1, 2, 3}

ThInit ==
    /\ thPc = [t \in Threads |-> "idle"]
    /\ thModel = [t \in Threads |-> 0]

StoreInit == EnvInit /\ BkInit /\ AiInit /\ SvcInit /\ DbInit /\ MdlInit /\ ThInit

\* ------------------------------------------------------------------------
\* Claims on uploads
\* ------------------------------------------------------------------------

\* The record the last upload left in the store of its path, if any.
UploadStored ==
    CASE opCall.op = "backend.create_document" ->
            \E i \in 1..Len(_read_documents(bkFile)) :
                _read_documents(bkFile)[i].id = opResult.value.id
      [] opCall.op = "main.upload_file" -> opResult.value \in DOMAIN aiIndex
      [] opCall.op = "service.upload_document" ->
            \E i \in 1..Len(documents) : documents[i].id = opResult.value.id
      [] OTHER -> TRUE

UploadOps == {"backend.create_document", "main.upload_file", "service.upload_document"}

\* C2: whatever the file's extension and content, an upload returns and
\* leaves a document record with an id in the store, also when the
\* extraction failed.
C2_UploadAlwaysStores ==
    (opCall.kind = "call" /\ opCall.op \in UploadOps)
        => (opResult.kind = "return" /\ UploadStored)

\* ------------------------------------------------------------------------
\* Python list helpers
\* ------------------------------------------------------------------------

Reverse(s) == [i \in 1..Len(s) |-> s[Len(s) + 1 - i]]

\* seq[:limit] for limit >= 0
Take(s, limit) == SubSeq(s, 1, Min(limit, Len(s)))

\* needle in hay, for strings
Contains(needle, hay) ==
    \E i \in 0..(Len(hay) - Len(needle)) : SubSeq(hay, i + 1, i + Len(needle)) = needle

\* A sort key: a non-negative number dot / sqrt(nd) (an int n is dot = n,
\* nd = 1), or nan.
Key(nan, dot, nd) == [nan |-> nan, dot |-> dot, nd |-> nd]

\* a < b on keys: every comparison with nan is False.
KeyLt(a, b) ==
    /\ ~a.nan
    /\ ~b.nan
    /\ a.dot * a.dot * b.nd < b.dot * b.dot * a.nd

\* list.sort on (item, key) pairs, as CPython sorts a list of fewer than 64
\* elements: the leading run (reversed when strictly descending), then
\* binary insertion of the rest.
RunEnd(s, descending) ==
    CHOOSE n \in 2..Len(s) :
        /\ \A j \in 3..n : KeyLt(s[j].key, s[j - 1].key) = descending
        /\ (n = Len(s) \/ KeyLt(s[n + 1].key, s[n].key) # descending)

RECURSIVE BinaryPos(_, _, _, _)
BinaryPos(s, pivot, l, r) ==
    IF l >= r THEN l
    ELSE LET p == l + (r - l) \div 2
         IN  IF KeyLt(pivot.key, s[p + 1].key)
             THEN BinaryPos(s, pivot, l, p)
             ELSE BinaryPos(s, pivot, p + 1, r)

RECURSIVE BinarySort(_, _)
BinarySort(s, start) ==
    IF start > Len(s) THEN s
    ELSE LET pos == BinaryPos(s, s[start], 0, start - 1)
             moved == [i \in 1..Len(s) |->
                          IF i <= pos \/ i > start THEN s[i]
                          ELSE IF i = pos + 1 THEN s[start]
                          ELSE s[i - 1]]
         IN  BinarySort(moved, start + 1)

PySort(s) ==
    IF Len(s) < 2 THEN s
    ELSE LET descending == KeyLt(s[2].key, s[1].key)
             n == RunEnd(s, descending)
             run == IF descending
                    THEN [i \in 1..Len(s) |-> IF i <= n THEN s[n + 1 - i] ELSE s[i]]
                    ELSE s
         IN  BinarySort(run, n + 1)

\* list.sort(key=..., reverse=True): reverse, sort, reverse (equal keys keep
\* their order).
PySortReverse(s) == Reverse(PySort(Reverse(s)))

\* ------------------------------------------------------------------------
\* Embeddings and search: services/documents (analyzers.py, service.py)
\* ------------------------------------------------------------------------

\* _sentence_transformer = None; instances are numbered from 1.
NoModel == 0

\* Most times the model is constructed in a behaviour.
MaxLoads == 2

\* get_sentence_transformer, called on its own: the instance returned (a
\* new one when none is loaded and the load succeeds), or the load's
\* exception re-raised.
get_sentence_transformer(load_ok) ==
    IF _sentence_transformer # NoModel
    THEN [model |-> _sentence_transformer, loads |-> modelLoads,
          outcome |-> Return(_sentence_transformer)]
    ELSE IF load_ok
    THEN [model |-> modelLoads + 1, loads |-> modelLoads + 1,
          outcome |-> Return(modelLoads + 1)]
    ELSE [model |-> NoModel, loads |-> modelLoads, outcome |-> Raise("OSError")]

\* model.encode(text): a vector that depends on the text and is never zero
\* (how many letters a or A, how many other characters, and a constant).
Encode(text) ==
    LET as == Cardinality({i \in 1..Len(text) : LowerChars(text)[i] = 97})
    IN  <<as, Len(text) - as, 1>>

Dot(v, w) == v[1] * w[1] + v[2] * w[2] + v[3] * w[3]

\* calculate_similarity: dot / (norm * norm), nan when a norm is zero; as a
\* sort key, the query's norm (the same in every score) left out.
calculate_similarity(query_embedding, doc_embedding) ==
    Key(Dot(query_embedding, query_embedding) * Dot(doc_embedding, doc_embedding) = 0,
        Dot(query_embedding, doc_embedding),
        Dot(doc_embedding, doc_embedding))

\* A query: None, or a string.
NoQuery == [none |-> TRUE, chars |-> <<>>]
Query(chars) == [none |-> FALSE, chars |-> chars]

\* The positions of the documents of that id (at most one).
DocIndex(docs, doc_id) == {i \in 1..Len(docs) : docs[i].id = doc_id}

\* get_document's effect on one record: an empty content is read again
\* from the content file, or replaced by a notice when the file is missing.
Loaded(doc) ==
    IF TextChars(doc.content) # <<>> THEN doc
    ELSE IF doc.id \in DOMAIN contentFiles
    THEN [doc EXCEPT !.content = contentFiles[doc.id]]
    ELSE [doc EXCEPT !.content = Diagnostic("Document content file not found", "None")]

\* The documents after get_document was called on the ids in visited.
AfterGet(docs, visited) ==
    [i \in 1..Len(docs) |-> IF docs[i].id \in visited THEN Loaded(docs[i]) ELSE docs[i]]

\* generate_embedding: False for an unknown id; else load the model, encode
\* the content, save the vector and set the flag. Any exception is logged
\* and the function returns False.
generate_embedding(doc_id, load_ok, save_ok) ==
    LET got == get_sentence_transformer(load_ok)
        docs == AfterGet(documents, {doc_id})
        i == CHOOSE j \in DocIndex(documents, doc_id) : TRUE
        unchanged == [documents |-> docs, metadataFile |-> metadataFile,
                      embFiles |-> embFiles, model |-> got.model, loads |-> got.loads,
                      outcome |-> Return(FALSE)]
    IN  IF DocIndex(documents, doc_id) = {}
        THEN [unchanged EXCEPT !.documents = documents,
                               !.model = _sentence_transformer, !.loads = modelLoads]
        ELSE IF got.outcome.kind = "raise" \/ ~save_ok THEN unchanged
        ELSE LET flagged == [docs EXCEPT ![i].embedding = TRUE]
             IN  [documents |-> flagged, metadataFile |-> flagged,
                  embFiles |-> DictSet(embFiles, doc_id, Encode(TextChars(docs[i].content))),
                  model |-> got.model, loads |-> got.loads, outcome |-> Return(TRUE)]

\* Lines 421-433: the documents that pass the dataset and tag filters.
PassesFilters(doc, dataset_id, tag_ids) ==
    /\ (dataset_id # "None" /\ dataset_id # "") => doc.dataset_id = dataset_id
    /\ \A k \in 1..Len(tag_ids) : \E j \in 1..Len(doc.tags) : doc.tags[j] = tag_ids[k]

CandidateDocs(docs, dataset_id, tag_ids) ==
    SelectSeq(docs, LAMBDA doc : PassesFilters(doc, dataset_id, tag_ids))

\* Lines 435-441: the candidates flagged as embedded whose .npy file exists.
EmbeddedDocs(candidates) ==
    SelectSeq(candidates, LAMBDA doc : doc.embedding /\ doc.id \in DOMAIN embFiles)

\* Lines 443-455: the candidates whose name or content contains the query,
\* both lowercased, in the order of the dict.
SubstringMatches(candidates, query) ==
    SelectSeq(candidates,
        LAMBDA doc :
            \/ Contains(LowerChars(query.chars), LowerChars(Loaded(doc).name))
            \/ Contains(LowerChars(query.chars), LowerChars(TextChars(Loaded(doc).content))))

Ids(docs) == [i \in 1..Len(docs) |-> docs[i].id]

IdSet(docs) == {docs[i].id : i \in 1..Len(docs)}

\* The ranking blended: the embedded candidates by similarity, followed by
\* the stored documents without a vector whose name or content holds the
\* query.
SemanticTopBlended(embedded, query, limit) ==
    LET scores == [i \in 1..Len(embedded) |->
                      [item |-> embedded[i].id,
                       key |-> calculate_similarity(Encode(query.chars),
                                                    embFiles[embedded[i].id])]]
        ranked == PySortReverse(scores)
        others == SubstringMatches(
                      SelectSeq(documents, LAMBDA doc : doc.id \notin IdSet(embedded)),
                      query)
    IN  Take([i \in 1..Len(ranked) |-> ranked[i].item] \o Ids(others), limit)

\* Lines 457-484: the embedded candidates by descending similarity to the
\* query, the first limit of them.
SemanticTop(embedded, query, limit) ==
    LET scores == [i \in 1..Len(embedded) |->
                      [item |-> embedded[i].id,
                       key |-> calculate_similarity(Encode(query.chars),
                                                    embFiles[embedded[i].id])]]
        top == Take(PySortReverse(scores), limit)
    IN  [i \in 1..Len(top) |-> top[i].item]

\* search_documents: the ids of the documents returned, and what the call
\* leaves behind. Every exception ends in "return []".
search_documents(query, limit, dataset_id, tag_ids, load_ok) ==
    LET candidates == CandidateDocs(documents, dataset_id, tag_ids)
        embedded == EmbeddedDocs(candidates)
        got == get_sentence_transformer(load_ok)
        same == [documents |-> documents, model |-> _sentence_transformer,
                 loads |-> modelLoads, path |-> "substring", outcome |-> Return(<<>>)]
    IN  IF embedded = <<>>
        THEN IF query.none
             THEN same
             ELSE [same EXCEPT
                      !.documents = AfterGet(documents, IdSet(candidates)),
                      !.outcome = Return(Take(Ids(SubstringMatches(candidates, query)), limit))]
        ELSE IF got.outcome.kind = "raise"
        THEN [same EXCEPT !.path = "semantic"]
        ELSE IF query.none
        THEN [same EXCEPT !.path = "semantic", !.model = got.model, !.loads = got.loads]
        ELSE LET top == SemanticTop(embedded, query, limit)
             IN  [documents |-> AfterGet(documents, {top[i] : i \in 1..Len(top)}),
                  model |-> got.model, loads |-> got.loads, path |-> "semantic",
                  outcome |-> Return(top)]

\* ---- inputs of the search behaviours

\* Most documents in the service.
MaxDocs == 2

\* Text files: a name, the bytes (utf-8, nothing detected by chardet), the
\* dataset and the tags given with the upload.
TextUpload(stem, bytes, dataset_id, tag_ids) ==
    [stem |-> stem, ext |-> ".txt", file |-> File(bytes, "None", "ok", <<>>, "dict"),
     dataset_id |-> dataset_id, tags |-> tag_ids]

\* "A" with content " ", "x" with content "A", "x" with no content, and
\* tagged ones in a dataset.
SearchUploads ==
    {TextUpload(<<65>>, <<32>>, "None", <<>>),
     TextUpload(<<120>>, <<65>>, "None", <<>>),
     TextUpload(<<120>>, <<>>, "None", <<>>),
     TextUpload(<<65>>, <<65, 65>>, "d1", <<"t1", "t2">>),
     TextUpload(<<120>>, <<65, 32>>, "d1", <<"t1">>)}

\* No query, the empty query, "A" and "z".
Queries == {NoQuery, Query(<<>>), Query(<<65>>), Query(<<122>>)}

Limits == 0..MaxDocs

SearchFilters ==
    {[dataset_id |-> "None", tag_ids |-> <<>>],
     [dataset_id |-> "d1", tag_ids |-> <<>>],
     [dataset_id |-> "None", tag_ids |-> <<"t1", "t2">>]}

\* ---- the operations

\* /documents/upload with a text file. The content file fails to be written
\* only for an empty content (the one get_document reads again).
SvcUploadText ==
    \E u \in SearchUploads, disk_ok \in BOOLEAN :
        /\ Len(documents) < MaxDocs
        /\ uuidNext < MaxDocs
        /\ (u.file.bytes # <<>>) => disk_ok
        /\ SvcUploaded(u, u.dataset_id, u.tags, disk_ok)

\* document_service.generate_embedding(doc_id)
SvcGenerateEmbedding ==
    \E doc_id \in 1..MaxDocs, load_ok \in BOOLEAN, save_ok \in BOOLEAN :
        LET done == generate_embedding(doc_id, load_ok, save_ok)
        IN  /\ done.loads <= MaxLoads
            /\ load_ok \/ _sentence_transformer = NoModel
            /\ opCall' = [kind |-> "call", op |-> "service.generate_embedding",
                          doc_id |-> doc_id, load_ok |-> load_ok, save_ok |-> save_ok,
                          loaded |-> _sentence_transformer # NoModel]
            /\ opResult' = done.outcome
            /\ documents' = done.documents
            /\ metadataFile' = done.metadataFile
            /\ embFiles' = done.embFiles
            /\ failedEmbeddings' =
                  IF DocIndex(documents, doc_id) = {} THEN failedEmbeddings
                  ELSE IF done.outcome.value THEN failedEmbeddings \ {doc_id}
                  ELSE failedEmbeddings \cup {doc_id}
            /\ _sentence_transformer' = done.model
            /\ modelLoads' = done.loads
            /\ UNCHANGED <<datasets, tags, contentFiles>>
            /\ UNCHANGED <<envVars, bkVars, aiVars, dbVars, thVars>>
            /\ UNCHANGED <<exVars, chVars>>

\* The last operation was a search that changed nothing in the service.
IdleSearch ==
    /\ opCall.kind = "call"
    /\ opCall.op = "service.search_documents"
    /\ ~opCall.changed

\* document_service.search_documents(query, limit, dataset_id, tag_ids). A
\* search right after a search that changed nothing is left out: it is the
\* search of the same service one step earlier.
SvcSearch ==
    \E query \in Queries, limit \in Limits, f \in SearchFilters, load_ok \in BOOLEAN :
        LET done == search_documents(query, limit, f.dataset_id, f.tag_ids, load_ok)
        IN  /\ ~IdleSearch
            /\ done.loads <= MaxLoads
            /\ load_ok \/ _sentence_transformer = NoModel
            /\ opCall' = [kind |-> "call", op |-> "service.search_documents",
                          query |-> query, limit |-> limit, dataset_id |-> f.dataset_id,
                          tag_ids |-> f.tag_ids, load_ok |-> load_ok,
                          loaded |-> _sentence_transformer # NoModel,
                          path |-> done.path,
                          changed |-> (done.documents # documents
                                       \/ done.model # _sentence_transformer)]
            /\ opResult' = done.outcome
            /\ documents' = done.documents
            /\ _sentence_transformer' = done.model
            /\ modelLoads' = done.loads
            /\ UNCHANGED <<metadataFile, datasets, tags, contentFiles, embFiles,
                           failedEmbeddings>>
            /\ UNCHANGED <<envVars, bkVars, aiVars, dbVars, thVars>>
            /\ UNCHANGED <<exVars, chVars>>

\* The server process restarts: the module globals are fresh and
\* DocumentService() reads metadata.json again.
SvcRestart ==
    /\ opCall' = [kind |-> "call", op |-> "restart"]
    /\ opResult' = Return("None")
    /\ documents' = metadataFile
    /\ _sentence_transformer' = NoModel
    /\ UNCHANGED <<metadataFile, datasets, tags, contentFiles, embFiles,
                   failedEmbeddings, modelLoads>>
    /\ UNCHANGED <<envVars, bkVars, aiVars, dbVars, thVars>>
    /\ UNCHANGED <<exVars, chVars>>

SearchNext == SvcUploadText \/ SvcGenerateEmbedding \/ SvcSearch \/ SvcRestart

\* ------------------------------------------------------------------------
\* Claims on search and embeddings
\* ------------------------------------------------------------------------

\* The last operation was document_service.search_documents and returned.
Searched ==
    /\ opCall.kind = "call"
    /\ opCall.op = "service.search_documents"
    /\ opResult.kind = "return"

\* The stored document of that id.
DocOf(doc_id) == documents[CHOOSE i \in DocIndex(documents, doc_id) : TRUE]

TitleMatch(doc, query) == Contains(LowerChars(query.chars), LowerChars(doc.name))

ContentMatch(doc, query) ==
    Contains(LowerChars(query.chars), LowerChars(TextChars(Loaded(doc).content)))

Matching ==
    LET candidates == CandidateDocs(documents, opCall.dataset_id, opCall.tag_ids)
    IN  IF opCall.query.none THEN <<>>
        ELSE IF opCall.path = "semantic" THEN EmbeddedDocs(candidates)
        ELSE SubstringMatches(candidates, opCall.query)

ModelLoadFailed ==
    /\ opCall.kind = "call"
    /\ opCall.op \in {"service.generate_embedding", "service.search_documents"}
    /\ ~opCall.loaded
    /\ ~opCall.load_ok
    /\ (opCall.op = "service.search_documents" => opCall.path = "semantic")
    /\ (opCall.op = "service.generate_embedding" => DocIndex(documents, opCall.doc_id) # {})

ThFrame ==
    /\ UNCHANGED <<envVars, bkVars, aiVars, svcVars, dbVars, opVars>>
    /\ UNCHANGED <<exVars, chVars>>

\* A thread calls the function.
ThCall(t) ==
    /\ thPc[t] = "idle"
    /\ thPc' = [thPc EXCEPT ![t] = "check"]
    /\ UNCHANGED <<thModel, mdlVars>>
    /\ ThFrame

\* Line 22: if _sentence_transformer is None
ThCheck(t) ==
    /\ thPc[t] = "check"
    /\ thPc' = [thPc EXCEPT ![t] = IF _sentence_transformer = NoModel
                                   THEN "construct" ELSE "return"]
    /\ UNCHANGED <<thModel, mdlVars>>
    /\ ThFrame

\* Line 26, right-hand side: SentenceTransformer('all-MiniLM-L6-v2') builds
\* a new instance, or raises and the function re-raises (lines 28-30).
ThConstruct(t) ==
    /\ thPc[t] = "construct"
    /\ \E load_ok \in BOOLEAN :
          IF load_ok
          THEN /\ modelLoads' = modelLoads + 1
               /\ thModel' = [thModel EXCEPT ![t] = modelLoads + 1]
               /\ thPc' = [thPc EXCEPT ![t] = "assign"]
          ELSE /\ thPc' = [thPc EXCEPT ![t] = "raised"]
               /\ UNCHANGED <<thModel, modelLoads>>
    /\ UNCHANGED _sentence_transformer
    /\ ThFrame

\* Line 26, the assignment to the global.
ThAssign(t) ==
    /\ thPc[t] = "assign"
    /\ _sentence_transformer' = thModel[t]
    /\ thPc' = [thPc EXCEPT ![t] = "return"]
    /\ UNCHANGED <<thModel, modelLoads>>
    /\ ThFrame

\* Line 31: return _sentence_transformer (the global as it is now).
ThReturn(t) ==
    /\ thPc[t] = "return"
    /\ thModel' = [thModel EXCEPT ![t] = _sentence_transformer]
    /\ thPc' = [thPc EXCEPT ![t] = "done"]
    /\ UNCHANGED mdlVars
    /\ ThFrame

ThreadsNext ==
    \E t \in Threads :
        ThCall(t) \/ ThCheck(t) \/ ThConstruct(t) \/ ThAssign(t) \/ ThReturn(t)

\* C8: however the first callers interleave, the model is constructed at
\* most once and all callers get the same instance.
C8_ModelLoadedOnce ==
    /\ modelLoads <= 1
    /\ \A t, u \in Threads :
          (thPc[t] = "done" /\ thPc[u] = "done") => thModel[t] = thModel[u]

\* ------------------------------------------------------------------------
\* Document ids: services/document_service.py and aiIntegration DocumentStore
\* ------------------------------------------------------------------------

\* The last second of the clock in a behaviour.
MaxClock == 1

\* Most documents in db.data["documents"], and in the DocumentStore index.
MaxStored == 2

\* time passes
Tick ==
    /\ clock < MaxClock
    /\ clock' = clock + 1
    /\ UNCHANGED <<uuidNext, bkVars, aiVars, svcVars, mdlVars, dbVars, opVars, thVars>>
    /\ UNCHANGED <<exVars, chVars>>

\* The id f"doc_{len(db.data['documents']) + 1}_{now:%Y%m%d%H%M%S}": the
\* count and the second determine the string and the string them.
DbDocId(count, second) == <<count, second>>

\* The documents posted to the API: "A" with content " ", "A" with content
\* "A", "x" with content "A", and a tagged "x" with content "A " in a
\* dataset.
DbDocuments ==
    {[title |-> <<65>>, content |-> <<32>>, dataset_id |-> "None", tag_ids |-> <<>>],
     [title |-> <<65>>, content |-> <<65>>, dataset_id |-> "None", tag_ids |-> <<>>],
     [title |-> <<120>>, content |-> <<65>>, dataset_id |-> "None", tag_ids |-> <<>>],
     [title |-> <<120>>, content |-> <<65, 32>>, dataset_id |-> "d1", tag_ids |-> <<"t1">>]}

\* db.data["documents"][doc_id] = new_doc on a dict kept in insertion order:
\* a new key goes last, an existing key keeps its place and gets the value.
OrderedSet(docs, doc_id, new_doc) ==
    IF DocIndex(docs, doc_id) = {} THEN Append(docs, new_doc)
    ELSE [i \in 1..Len(docs) |-> IF docs[i].id = doc_id THEN new_doc ELSE docs[i]]

\* del db.data["documents"][document_id]
OrderedDel(docs, doc_id) == SelectSeq(docs, LAMBDA d : d.id # doc_id)

\* services/document_service.create_document
DbCreateDocument ==
    \E document \in DbDocuments :
        LET doc_id == DbDocId(Len(dbDocuments) + 1, clock)
            new_doc == [id |-> doc_id, title |-> document.title,
                        content |-> document.content,
                        dataset_id |-> document.dataset_id, dataset_name |-> "None",
                        tag_ids |-> document.tag_ids,
                        is_favorite |-> FALSE, embedding_status |-> "pending",
                        created_at |-> clock, updated_at |-> "None"]
        IN  /\ Len(dbDocuments) < MaxStored
            /\ opCall' = [kind |-> "call", op |-> "document_service.create_document",
                          document |-> document,
                          replaced |-> DocIndex(dbDocuments, doc_id) # {}]
            /\ opResult' = Return(new_doc)
            /\ dbDocuments' = OrderedSet(dbDocuments, doc_id, new_doc)
            /\ UNCHANGED <<envVars, bkVars, aiVars, svcVars, mdlVars, thVars>>
            /\ UNCHANGED <<exVars, chVars>>

\* services/document_service.delete_document
DbDeleteDocument ==
    \E count \in 1..MaxStored, second \in 0..MaxClock :
        LET document_id == DbDocId(count, second)
        IN  /\ opCall' = [kind |-> "call", op |-> "document_service.delete_document",
                          document_id |-> document_id]
            /\ opResult' = Return(DocIndex(dbDocuments, document_id) # {})
            /\ dbDocuments' = OrderedDel(dbDocuments, document_id)
            /\ UNCHANGED <<envVars, bkVars, aiVars, svcVars, mdlVars, thVars>>
            /\ UNCHANGED <<exVars, chVars>>

\* The files given to DocumentStore.add_document: a name and its chunks.
AiDocuments ==
    {[stem |-> s, ext |-> ".txt", chunks |-> c] :
        s \in {<<114>>, <<120>>}, c \in {<<>>, <<<<65>>>>}}

\* DocumentStore.add_document
AiAddDocument ==
    \E d \in AiDocuments :
        LET added == add_document(clock, d.stem, d.ext, d.chunks)
        IN  /\ Cardinality(DOMAIN aiIndex) < MaxStored
            /\ opCall' = [kind |-> "call", op |-> "DocumentStore.add_document",
                          document |-> d, replaced |-> added.doc_id \in DOMAIN aiIndex]
            /\ opResult' = Return(added.doc_id)
            /\ aiIndex' = added.index
            /\ aiChunks' = added.chunks
            /\ UNCHANGED <<envVars, bkVars, svcVars, mdlVars, dbVars, thVars>>
            /\ UNCHANGED <<exVars, chVars>>

\* DocumentStore.remove_document. remove_ok: whether os.remove of the
\* chunks file works; its exception is printed and the removal goes on
\* (lines 172-176).
AiRemoveDocument ==
    \E second \in 0..MaxClock, d \in AiDocuments, remove_ok \in BOOLEAN :
        LET doc_id == AiDocId(second, d.stem, d.ext)
            found == doc_id \in DOMAIN aiIndex
        IN  /\ remove_ok \/ found
            /\ opCall' = [kind |-> "call", op |-> "DocumentStore.remove_document",
                          doc_id |-> doc_id, remove_ok |-> remove_ok]
            /\ opResult' = Return(found)
            /\ aiIndex' = IF found THEN DictDel(aiIndex, doc_id) ELSE aiIndex
            /\ aiChunks' = IF found /\ remove_ok THEN DictDel(aiChunks, doc_id) ELSE aiChunks
            /\ UNCHANGED <<envVars, bkVars, svcVars, mdlVars, dbVars, thVars>>
            /\ UNCHANGED <<exVars, chVars>>

IdsNext ==
    Tick \/ DbCreateDocument \/ DbDeleteDocument \/ AiAddDocument \/ AiRemoveDocument

\* C10: every creation assigns an id that no stored document has, so it
\* never replaces a record, also within one second and after deletions.
C10_CreationNeverReplaces ==
    (/\ opCall.kind = "call"
     /\ opCall.op \in {"document_service.create_document", "DocumentStore.add_document"})
        => ~opCall.replaced

\* ------------------------------------------------------------------------
\* Deletion: DocumentService.delete_document (both services) and
\* DocumentStore.remove_document
\* ------------------------------------------------------------------------

\* DocumentService.delete_document of services/documents/service.py.
\* remove_ok: whether os.remove of the content file works (an error other
\* than FileNotFoundError propagates); save_ok: whether metadata.json can be
\* written (_save_documents_metadata logs the error and returns).
delete_document(doc_id, remove_ok, save_ok) ==
    IF DocIndex(documents, doc_id) = {}
    THEN [documents |-> documents, metadataFile |-> metadataFile,
          contentFiles |-> contentFiles, embFiles |-> embFiles,
          datasets |-> datasets, tags |-> tags, outcome |-> Return(FALSE)]
    ELSE LET document == documents[CHOOSE i \in DocIndex(documents, doc_id) : TRUE]
             counted == [d \in DOMAIN datasets |->
                            IF d = document.dataset_id
                            THEN [datasets[d] EXCEPT
                                     !.document_count = IF @ > 0 THEN @ - 1 ELSE 0]
                            ELSE datasets[d]]
             tagged == [t \in DOMAIN tags |->
                           [tags[t] EXCEPT !.document_count =
                               Max(0, @ - TagCount(document.tags, t))]]
             remaining == SelectSeq(documents, LAMBDA d : d.id # doc_id)
         IN  IF doc_id \in DOMAIN contentFiles /\ ~remove_ok
             THEN [documents |-> documents, metadataFile |-> metadataFile,
                   contentFiles |-> contentFiles, embFiles |-> embFiles,
                   datasets |-> counted, tags |-> tagged,
                   outcome |-> Raise("PermissionError")]
             ELSE [documents |-> remaining,
                   metadataFile |-> IF save_ok THEN remaining ELSE metadataFile,
                   contentFiles |-> IF doc_id \in DOMAIN contentFiles
                                    THEN DictDel(contentFiles, doc_id) ELSE contentFiles,
                   embFiles |-> IF doc_id \in DOMAIN embFiles
                                THEN DictDel(embFiles, doc_id) ELSE embFiles,
                   datasets |-> counted, tags |-> tagged,
                   outcome |-> Return(TRUE)]

SvcDeleteDocument ==
    \E doc_id \in 1..MaxDocs, remove_ok \in BOOLEAN, save_ok \in BOOLEAN :
        LET done == delete_document(doc_id, remove_ok, save_ok)
        IN  /\ remove_ok \/ doc_id \in DOMAIN contentFiles
            /\ opCall' = [kind |-> "call", op |-> "service.delete_document",
                          doc_id |-> doc_id, remove_ok |-> remove_ok, save_ok |-> save_ok]
            /\ opResult' = done.outcome
            /\ documents' = done.documents
            /\ metadataFile' = done.metadataFile
            /\ contentFiles' = done.contentFiles
            /\ embFiles' = done.embFiles
            /\ datasets' = done.datasets
            /\ tags' = done.tags
            /\ UNCHANGED failedEmbeddings
            /\ UNCHANGED <<envVars, bkVars, aiVars, mdlVars, dbVars, thVars>>
            /\ UNCHANGED <<exVars, chVars>>

\* DocumentService.delete_document of src/backend: the record is popped and
\* the list written back, then the document's directory is removed.
BkDeleteDocument ==
    \E document_id \in 1..MaxUploads :
        LET docs == _read_documents(bkFile)
            hits == {i \in 1..Len(docs) : docs[i].id = document_id}
            written == _write_documents(SelectSeq(docs, LAMBDA d : d.id # document_id))
        IN  /\ opCall' = [kind |-> "call", op |-> "backend.delete_document",
                          doc_id |-> document_id]
            /\ IF hits = {}
               THEN /\ opResult' = Return(FALSE)
                    /\ UNCHANGED <<bkFile, bkUploads>>
               ELSE /\ bkFile' = written.file
                    /\ IF written.outcome.kind = "raise"
                       THEN /\ opResult' = written.outcome
                            /\ UNCHANGED bkUploads
                       ELSE /\ opResult' = Return(TRUE)
                            /\ bkUploads' = bkUploads \ {document_id}
            /\ UNCHANGED <<envVars, bkWriters, aiVars, svcVars, mdlVars, dbVars, thVars>>
            /\ UNCHANGED <<exVars, chVars>>

\* The file uploaded before a deletion: "A.txt" holding a space.
DeleteUploads == {TextUpload(<<65>>, <<32>>, "None", <<>>)}

\* /documents/upload with that file.
SvcUploadForDelete ==
    \E u \in DeleteUploads, disk_ok \in BOOLEAN :
        /\ Len(documents) < MaxDocs
        /\ uuidNext < MaxDocs
        /\ SvcUploaded(u, u.dataset_id, u.tags, disk_ok)

\* The three applications are separate processes with separate storage: a
\* behaviour works on one of them and leaves the other two as constructed.
SvcAlone == AiInit /\ BkInit
AiAlone == SvcInit /\ BkInit
BkAlone == SvcInit /\ AiInit

DeleteNext ==
    \/ SvcAlone /\ SvcUploadForDelete
    \/ SvcAlone /\ SvcGenerateEmbedding
    \/ SvcAlone /\ SvcDeleteDocument
    \/ SvcAlone /\ SvcRestart
    \/ AiAlone /\ AiAddDocument
    \/ AiAlone /\ AiRemoveDocument
    \/ BkAlone /\ BkCreateDocument
    \/ BkAlone /\ BkDeleteDocument

\* ------------------------------------------------------------------------
\* Claims on deletion
\* ------------------------------------------------------------------------

\* The last operation was a deletion that reported success.
Deleted ==
    /\ opCall.kind = "call"
    /\ opCall.op \in {"service.delete_document", "DocumentStore.remove_document",
                      "backend.delete_document"}
    /\ opResult = Return(TRUE)

\* What storage still holds of the document just deleted: its record (in
\* memory or on disk), its file, its text or chunks, its embedding vector.
Remains ==
    CASE opCall.op = "service.delete_document" ->
            \/ DocIndex(documents, opCall.doc_id) # {}
            \/ DocIndex(metadataFile, opCall.doc_id) # {}
            \/ opCall.doc_id \in DOMAIN contentFiles
            \/ opCall.doc_id \in DOMAIN embFiles
      [] opCall.op = "DocumentStore.remove_document" ->
            \/ opCall.doc_id \in DOMAIN aiIndex
            \/ opCall.doc_id \in DOMAIN aiChunks
      [] opCall.op = "backend.delete_document" ->
            \/ DocIndex(_read_documents(bkFile), opCall.doc_id) # {}
            \/ opCall.doc_id \in bkUploads

\* C11: after a deletion that reported success, storage holds nothing of
\* the document: no record, no file, no text or chunks, no embedding.
C11_DeletionLeavesNothing == Deleted => ~Remains

\* ------------------------------------------------------------------------
\* Claims on the ranking strategy, the filters and the semantic order
\* ------------------------------------------------------------------------

\* The candidates of the last search and those of them with a stored vector.
SearchCandidates == CandidateDocs(documents, opCall.dataset_id, opCall.tag_ids)

SearchEmbedded == EmbeddedDocs(SearchCandidates)

\* The similarity of the stored vector of a document to the last query.
Similarity(doc_id) == calculate_similarity(Encode(opCall.query.chars), embFiles[doc_id])

\* C12: a result list comes from one strategy. When a candidate has a stored
\* embedding, every result is an embedded candidate and the results are in
\* descending similarity; otherwise every result is a substring match.
C12_OneRankingStrategy ==
    Searched =>
        IF SearchEmbedded # <<>>
        THEN /\ opCall.path = "semantic"
             /\ \A k \in 1..Len(opResult.value) :
                   opResult.value[k] \in IdSet(SearchEmbedded)
             /\ \A k \in 1..(Len(opResult.value) - 1) :
                   ~KeyLt(Similarity(opResult.value[k]), Similarity(opResult.value[k + 1]))
        ELSE /\ opCall.path = "substring"
             /\ \A k \in 1..Len(opResult.value) :
                   opResult.value[k] \in IdSet(SubstringMatches(SearchCandidates, opCall.query))

\* A semantic search returned a document while a candidate without a vector
\* holds the query in its name or content.
C12_Witness ==
    /\ Searched
    /\ SearchEmbedded # <<>>
    /\ opResult.value # <<>>
    /\ \E i \in 1..Len(SearchCandidates) :
          /\ SearchCandidates[i].id \notin IdSet(SearchEmbedded)
          /\ SearchCandidates[i].id
                \in IdSet(SubstringMatches(SearchCandidates, opCall.query))

\* The filter as an intersection test: the requested dataset, if one is
\* given, and a tag in common with the requested tags, if any are given.
InFilter(doc, dataset_id, tag_ids) ==
    /\ (dataset_id # "None" /\ dataset_id # "") => doc.dataset_id = dataset_id
    /\ (tag_ids # <<>>) =>
          \E k \in 1..Len(tag_ids), j \in 1..Len(doc.tags) : doc.tags[j] = tag_ids[k]

KeyEq(a, b) == ~a.nan /\ ~b.nan /\ a.dot * a.dot * b.nd = b.dot * b.dot * a.nd

\* The place of a document in the store (its insertion order).
Place(doc_id) == CHOOSE i \in DocIndex(documents, doc_id) : TRUE

\* Document d ranks before document e: more similar to the last query, or
\* as similar and stored earlier.
RanksBefore(d, e) ==
    \/ KeyLt(Similarity(e), Similarity(d))
    \/ KeyEq(Similarity(d), Similarity(e)) /\ Place(d) < Place(e)

MaxWords == 401

\* A text of n words: "a a ... a".
WordsText(n) ==
    [i \in 1..(IF n = 0 THEN 0 ELSE 2 * n - 1) |-> IF i % 2 = 1 THEN 97 ELSE 32]

\* "Binary file content", the mark the upload leaves for a binary file.
BinaryMark == <<66, 105, 110, 97, 114, 121, 32, 102, 105, 108, 101, 32,
                99, 111, 110, 116, 101, 110, 116>>

\* The analysed texts, numbered: the binary mark, and the texts of 0 to
\* MaxWords words.
AnalysisText(n) == IF n < 0 THEN BinaryMark ELSE WordsText(n)

\* text.startswith(prefix)
StartsWith(text, prefix) ==
    Len(text) >= Len(prefix) /\ SubSeq(text, 1, Len(prefix)) = prefix

\* round(a / b) for a >= 0, b > 0: to the nearest integer, a half to the
\* even one.
PyRound(a, b) ==
    LET q == a \div b
        r == a % b
    IN  IF 2 * r < b THEN q
        ELSE IF 2 * r > b THEN q + 1
        ELSE IF q % 2 = 0 THEN q ELSE q + 1

\* DocumentService.analyze_document, lines 497-502 (the except clause
\* computes the same numbers).
analyze_document(content) ==
    [word_count |-> WordCount(content),
     reading_time |-> (WordCount(content) + 199) \div 200]

\* analyze_document_endpoint, lines 335-353: nothing is counted for a
\* binary mark; else the words, and at least one minute.
analyze_document_endpoint(content) ==
    IF content # <<>> /\ StartsWith(content, BinaryMark)
    THEN [word_count |-> 0, reading_time |-> 0]
    ELSE LET word_count == IF content # <<>> THEN WordCount(content) ELSE 0
         IN  [word_count |-> word_count,
              reading_time |-> Max(1, PyRound(word_count, WordsPerMinute))]

\* The analyses are pure: a behaviour makes one call.
NotCalled == opCall.kind = "none"

\* What the analyses leave alone: everything but the call and its result.
AnalysisFrame ==
    /\ UNCHANGED <<envVars, bkVars, aiVars, svcVars, mdlVars, dbVars, thVars>>
    /\ UNCHANGED <<exVars, chVars>>

ProcessTextMetadata ==
    /\ NotCalled
    /\ \E n \in -1..MaxWords :
        LET content == AnalysisText(n)
            metadata == process_text_metadata(content, NewMetadata(0, <<>>, ".txt"))
        IN  /\ opCall' = [kind |-> "call", op |-> "process_text_metadata",
                          content |-> content]
            /\ opResult' = Return([word_count |-> metadata.word_count,
                                   reading_time |-> metadata.read_time_minutes])
            /\ AnalysisFrame

AnalyzeDocument ==
    /\ NotCalled
    /\ \E n \in -1..MaxWords :
        LET content == AnalysisText(n)
        IN  /\ opCall' = [kind |-> "call", op |-> "analyze_document", content |-> content]
            /\ opResult' = Return(analyze_document(content))
            /\ AnalysisFrame

AnalyzeDocumentEndpoint ==
    /\ NotCalled
    /\ \E n \in -1..MaxWords :
        LET content == AnalysisText(n)
        IN  /\ opCall' = [kind |-> "call", op |-> "analyze_document_endpoint",
                          content |-> content]
            /\ opResult' = Return(analyze_document_endpoint(content))
            /\ AnalysisFrame

AnalysisNext == ProcessTextMetadata \/ AnalyzeDocument \/ AnalyzeDocumentEndpoint

\* The last operation reported a word count and a reading time.
Analysed ==
    /\ opCall.kind = "call"
    /\ opCall.op \in {"process_text_metadata", "analyze_document",
                      "analyze_document_endpoint"}

\* ceil(n / 200): the least number of minutes that covers n words.
CeilMinutes(n) == CHOOSE m \in 0..n : m * 200 >= n /\ (m = 0 \/ (m - 1) * 200 < n)

\* C15: every path reports the number of whitespace-separated tokens and
\* ceil(word_count / 200) minutes, 0 and 0 for the empty text.
C15_WordCountAndReadingTime ==
    Analysed =>
        /\ opResult.value.word_count = WordCount(opCall.content)
        /\ opResult.value.reading_time = CeilMinutes(opResult.value.word_count)

\* ------------------------------------------------------------------------
\* calculate_similarity on its own (analyzers.py 78-86)
\* ------------------------------------------------------------------------

\* Largest component of a vector given to calculate_similarity.
MaxComponent == 2

\* The vectors: three components, the zero vector among them.
Vectors == [1..3 -> 0..MaxComponent]

CalculateSimilarity ==
    /\ NotCalled
    /\ \E query_embedding \in Vectors, doc_embedding \in Vectors :
          /\ opCall' = [kind |-> "call", op |-> "calculate_similarity",
                        query_embedding |-> query_embedding,
                        doc_embedding |-> doc_embedding]
          /\ opResult' = Return(calculate_similarity(query_embedding, doc_embedding))
          /\ AnalysisFrame

\* C16: when one of the two vectors has zero norm, calculate_similarity
\* returns 0.0 and does not raise.
C16_ZeroNormGivesZero ==
    (/\ opCall.kind = "call"
     /\ opCall.op = "calculate_similarity"
     /\ \/ Dot(opCall.query_embedding, opCall.query_embedding) = 0
        \/ Dot(opCall.doc_embedding, opCall.doc_embedding) = 0)
        => /\ opResult.kind = "return"
           /\ ~opResult.value.nan
           /\ opResult.value.dot = 0

\* ------------------------------------------------------------------------
\* Context assembly: _prepare_document_context (aiIntegration main.py and
\* chat-bots-profiles api/chat.py)
\* ------------------------------------------------------------------------

\* Most chunks handed to the assembly, and the largest max_chunks.
MaxChunks == 12
MaxMaxChunks == 6

\* The stored chunks: n texts, the i-th one standing for itself.
Chunks(n) == [i \in 1..n |-> i]

\* list(range(start, stop, step)) for step >= 1
PyRange(start, stop, step) ==
    [k \in 1..(IF stop > start THEN (stop - start + step - 1) \div step ELSE 0) |->
        start + (k - 1) * step]

\* One formatted piece of the context: f"{header} {number}:\n{chunk}" and
\* the text that follows it.
Section(header, number, chunk, delimiter) ==
    [header |-> header, number |-> number, chunk |-> chunk, delimiter |-> delimiter]

\* main.py: "" for no chunks; all of them up to max_chunks; else the first
\* and a sampling of the rest at step (len - 1) // (max_chunks - 1).
_prepare_document_context(chunks, max_chunks) ==
    IF chunks = <<>> THEN Return([preamble |-> FALSE, sections |-> <<>>])
    ELSE IF Len(chunks) > max_chunks /\ max_chunks - 1 = 0
    THEN Raise("ZeroDivisionError")
    ELSE LET step == (Len(chunks) - 1) \div (max_chunks - 1)
             indices == <<0>> \o Take(PyRange(1, Len(chunks), step), max_chunks - 1)
             formatted_chunks ==
                 IF Len(chunks) <= max_chunks THEN chunks
                 ELSE [k \in 1..Len(indices) |-> chunks[indices[k] + 1]]
         IN  Return([preamble |-> FALSE,
                     sections |-> [k \in 1..Len(formatted_chunks) |->
                                      Section("Document Section", k, formatted_chunks[k],
                                              "\n\n---\n\n")]])

\* chat.py: the first max_chunks chunks under "Document chunk N:", joined by
\* blank lines, after a sentence that introduces them.
_prepare_document_context_chat(chunks, max_chunks) ==
    LET kept == IF Len(chunks) > max_chunks THEN Take(chunks, max_chunks) ELSE chunks
    IN  Return([preamble |-> TRUE,
                sections |-> [k \in 1..Len(kept) |->
                                 Section("Document chunk", k, kept[k], "\n\n")]])

PrepareContext ==
    /\ NotCalled
    /\ \E n \in 0..MaxChunks, max_chunks \in 1..MaxMaxChunks :
          /\ opCall' = [kind |-> "call", op |-> "main._prepare_document_context",
                        chunks |-> Chunks(n), max_chunks |-> max_chunks]
          /\ opResult' = _prepare_document_context(Chunks(n), max_chunks)
          /\ AnalysisFrame

PrepareContextChat ==
    /\ NotCalled
    /\ \E n \in 0..MaxChunks, max_chunks \in 1..MaxMaxChunks :
          /\ opCall' = [kind |-> "call", op |-> "chat._prepare_document_context",
                        chunks |-> Chunks(n), max_chunks |-> max_chunks]
          /\ opResult' = _prepare_document_context_chat(Chunks(n), max_chunks)
          /\ AnalysisFrame

ContextNext == PrepareContext \/ PrepareContextChat

\* C17: for n >= 0 chunks and max_chunks >= 1 the assembly completes, and
\* the context holds min(n, max_chunks) sections numbered 1..k, each under
\* a "Document Section N" header and followed by the delimiter.
C17_ContextIsCapped ==
    (/\ opCall.kind = "call"
     /\ opCall.op \in {"main._prepare_document_context", "chat._prepare_document_context"})
        => /\ opResult.kind = "return"
           /\ Len(opResult.value.sections) = Min(Len(opCall.chunks), opCall.max_chunks)
           /\ \A k \in 1..Len(opResult.value.sections) :
                 /\ opResult.value.sections[k].number = k
                 /\ opResult.value.sections[k].header = "Document Section"
                 /\ opResult.value.sections[k].delimiter = "\n\n---\n\n"

\* ------------------------------------------------------------------------
\* Claims on the chunks' size, overlap and break points
\* ------------------------------------------------------------------------

\* C18: whatever the text and the configuration (0 <= chunk_overlap <
\* chunk_size), every chunk _chunk_text produces is non-empty and has at
\* most chunk_size characters.
C18_ChunksSizeBounded ==
    \A k \in 1..Len(chChunks) :
        /\ chChunks[k] # <<>>
        /\ Len(chChunks[k]) <= chunk_size

\* The first n and the last n characters of a string (all of it when it is
\* shorter).
FirstChars(s, n) == SubSeq(s, 1, Min(n, Len(s)))
LastChars(s, n) == SubSeq(s, Max(1, Len(s) - n + 1), Len(s))

\* C19: consecutive chunks share chunk_overlap characters, the end of the
\* earlier one being the start of the later one, and the final chunk ends
\* at the last character of the whitespace-normalized text.
C19_ConsecutiveChunksOverlap ==
    chPc = "done" =>
        /\ \A k \in 1..(Len(chChunks) - 1) :
              LastChars(chChunks[k], chunk_overlap)
                  = FirstChars(chChunks[k + 1], chunk_overlap)
        /\ chChunks # <<>> =>
              LastChars(CleanText(chInput), Len(chChunks[Len(chChunks)]))
                  = chChunks[Len(chChunks)]

\* Where window k would end without an adjustment: chunk_size characters
\* after its start, or at the end of the text.
NaturalEnd(k) == Min(chWindows[k].start + chunk_size, Len(chText))

\* The positions (counted from 1) of the break characters among the last
\* 100 characters of window k, the window's first character included.
BreaksInTail(k) ==
    {j \in 1..Len(chText) :
        /\ j > chWindows[k].start
        /\ j > NaturalEnd(k) - 100
        /\ j <= NaturalEnd(k)
        /\ chText[j] \in {46, 33, 63, 32}}

\* C20: a window that is neither the first nor the final one is cut just
\* after the nearest '.', '!', '?' or space among its last 100 characters,
\* and where it would end anyway when there is none; the first and the
\* final window are never adjusted.
C20_CutAtNearestBreak ==
    \A k \in 1..Len(chWindows) :
        IF k = 1 \/ NaturalEnd(k) = Len(chText) \/ BreaksInTail(k) = {}
        THEN chWindows[k].end = NaturalEnd(k)
        ELSE /\ chWindows[k].end \in BreaksInTail(k)
             /\ \A j \in BreaksInTail(k) : j <= chWindows[k].end

\* C21: from one iteration of the loop of _chunk_text to the next the window
\* start strictly increases, whatever the text and whatever the
\* configuration with 0 <= chunk_overlap < chunk_size, so that the loop
\* reaches the end of the text.
C21_StartStrictlyIncreases ==
    (0 <= chunk_overlap /\ chunk_overlap < chunk_size) =>
        \A k \in 1..(Len(chWindows) - 1) :
            chWindows[k + 1].start > chWindows[k].start

\* ------------------------------------------------------------------------
\* The substring search of services/document_service.py
\* ------------------------------------------------------------------------

\* Lines 181-190: the stored documents of the dataset, when one is given,
\* that carry any of the tags, when some are given.
DbFiltered(docs, dataset_id, tag_ids) ==
    SelectSeq(docs,
        LAMBDA doc :
            /\ dataset_id # "None" => doc.dataset_id = dataset_id
            /\ tag_ids # <<>> =>
                  \E k \in 1..Len(tag_ids), l \in 1..Len(doc.tag_ids) :
                      tag_ids[k] = doc.tag_ids[l])

\* Lines 200-206: 10 for the query in the title plus 5 for the query in the
\* content.
DbScore(doc, query) ==
    (IF Contains(query, LowerChars(doc.title)) THEN 10 ELSE 0)
    + (IF Contains(query, LowerChars(doc.content)) THEN 5 ELSE 0)

\* Lines 166-215: the ids of the first limit matching documents by
\* descending score; None.lower() raises and becomes an HTTPException.
db_search_documents(docs, query, dataset_id, tag_ids, limit) ==
    IF query.none THEN Raise("HTTPException")
    ELSE LET lowered == LowerChars(query.chars)
             matches == SelectSeq(DbFiltered(docs, dataset_id, tag_ids),
                                  LAMBDA doc : DbScore(doc, lowered) > 0)
             results == [i \in 1..Len(matches) |->
                            [item |-> matches[i].id,
                             key |-> Key(FALSE, DbScore(matches[i], lowered), 1)]]
             ranked == PySortReverse(results)
         IN  Return(Take([i \in 1..Len(ranked) |-> ranked[i].item], limit))

\* GET /documents/search on the older service.
DbSearchDocuments ==
    \E query \in Queries, f \in SearchFilters, limit \in 0..MaxStored :
        /\ opCall' = [kind |-> "call", op |-> "document_service.search_documents",
                      query |-> query, dataset_id |-> f.dataset_id,
                      tag_ids |-> f.tag_ids, limit |-> limit]
        /\ opResult' = db_search_documents(dbDocuments, query, f.dataset_id,
                                           f.tag_ids, limit)
        /\ UNCHANGED <<envVars, bkVars, aiVars, svcVars, mdlVars, dbVars, thVars>>
        /\ UNCHANGED <<exVars, chVars>>

DbSearchNext == Tick \/ DbCreateDocument \/ DbDeleteDocument \/ DbSearchDocuments

DbSearched ==
    /\ opCall.kind = "call"
    /\ opCall.op = "document_service.search_documents"
    /\ opResult.kind = "return"

\* The stored record of that id and its place in the store.
DbDocOf(doc_id) == dbDocuments[CHOOSE i \in DocIndex(dbDocuments, doc_id) : TRUE]
DbPlace(doc_id) == CHOOSE i \in DocIndex(dbDocuments, doc_id) : TRUE

\* C22: in the substring search, two returned documents that both match the
\* query in the title, or that both match it only in the content, come in
\* the order they were stored in.
C22_SameTierKeepsOrder ==
    (DbSearched /\ opCall.query.chars # <<>>) =>
        \A i, j \in 1..Len(opResult.value) :
            LET d == DbDocOf(opResult.value[i])
                e == DbDocOf(opResult.value[j])
                q == LowerChars(opCall.query.chars)
                inTitle(doc) == Contains(q, LowerChars(doc.title))
            IN  (i < j /\ inTitle(d) = inTitle(e))
                    => DbPlace(opResult.value[i]) < DbPlace(opResult.value[j])

\* The output of the first decoder that succeeds among UTF-8, the detected
\* encoding (when there is one) and Latin-1, tried in that order.
FirstDecoded(file) ==
    IF Decode(file.bytes, "utf-8").kind = "return"
    THEN Decode(file.bytes, "utf-8").value
    ELSE IF file.detected # "None" /\ Decode(file.bytes, file.detected).kind = "return"
    THEN Decode(file.bytes, file.detected).value
    ELSE Latin1Chars(file.bytes)

\* C23: the text extracted from a plain-text file is the output of the
\* first decoder that succeeds among UTF-8, the detected encoding and
\* Latin-1 in that order: valid UTF-8 bytes come back decoded as UTF-8, and
\* no bytes make the extraction fail.
C23_Utf8ThenDetectedThenLatin1 ==
    (exInput.kind = "call" /\ Lower(exInput.ext) = ".txt") =>
        /\ exResult.kind = "return"
        /\ exResult.value.text = Content(FirstDecoded(exInput.file))

\* ------------------------------------------------------------------------
\* CSV extraction: services/documents/processors.py, _extract_from_csv
\* ------------------------------------------------------------------------

\* The end-of-line mark the csv reader feeds itself after each line.
EOL == -2

\* The lines io.StringIO hands to csv.reader, laid end to end: a line ends
\* after each "\n" and at the end of the text, and the mark follows it.
RECURSIVE CsvFeed(_)
CsvFeed(text) ==
    IF text = <<>> THEN <<>>
    ELSE IF Head(text) = 10 THEN <<10, EOL>> \o CsvFeed(Tail(text))
    ELSE IF Len(text) = 1 THEN <<Head(text), EOL>>
    ELSE <<Head(text)>> \o CsvFeed(Tail(text))

\* The reader before its first character.
CsvStart ==
    [state |-> "START_RECORD", field |-> <<>>, fields |-> <<>>, rows |-> <<>>,
     error |-> FALSE]

\* parse_save_field
CsvSave(p) == [p EXCEPT !.fields = Append(p.fields, p.field), !.field = <<>>]

\* After a line's end a reader back in START_RECORD returns the record.
CsvEndLine(p) ==
    IF p.state = "START_RECORD"
    THEN [p EXCEPT !.rows = Append(p.rows, p.fields), !.fields = <<>>]
    ELSE p

\* parse_process_char of CPython's _csv.c for the excel dialect: delimiter
\* ",", quotechar '"', doublequote, no escapechar, not strict.
CsvChar(p, c) ==
    LET newline == c \in {10, 13}
        after == IF c = EOL THEN "START_RECORD" ELSE "EAT_CRNL"
        state == IF p.state = "START_RECORD" /\ c # EOL /\ ~newline
                 THEN "START_FIELD" ELSE p.state
    IN  CASE state = "START_RECORD" ->
                IF c = EOL THEN p ELSE [p EXCEPT !.state = "EAT_CRNL"]
          [] state = "START_FIELD" ->
                IF newline \/ c = EOL THEN [CsvSave(p) EXCEPT !.state = after]
                ELSE IF c = 34 THEN [p EXCEPT !.state = "IN_QUOTED_FIELD"]
                ELSE IF c = 44 THEN [CsvSave(p) EXCEPT !.state = "START_FIELD"]
                ELSE [p EXCEPT !.field = Append(@, c), !.state = "IN_FIELD"]
          [] state = "IN_FIELD" ->
                IF newline \/ c = EOL THEN [CsvSave(p) EXCEPT !.state = after]
                ELSE IF c = 44 THEN [CsvSave(p) EXCEPT !.state = "START_FIELD"]
                ELSE [p EXCEPT !.field = Append(@, c)]
          [] state = "IN_QUOTED_FIELD" ->
                IF c = EOL THEN p
                ELSE IF c = 34 THEN [p EXCEPT !.state = "QUOTE_IN_QUOTED_FIELD"]
                ELSE [p EXCEPT !.field = Append(@, c)]
          [] state = "QUOTE_IN_QUOTED_FIELD" ->
                IF c = 34
                THEN [p EXCEPT !.field = Append(@, c), !.state = "IN_QUOTED_FIELD"]
                ELSE IF c = 44 THEN [CsvSave(p) EXCEPT !.state = "START_FIELD"]
                ELSE IF newline \/ c = EOL THEN [CsvSave(p) EXCEPT !.state = after]
                ELSE [p EXCEPT !.field = Append(@, c), !.state = "IN_FIELD"]
          [] state = "EAT_CRNL" ->
                IF newline THEN p
                ELSE IF c = EOL THEN [p EXCEPT !.state = "START_RECORD"]
                ELSE [p EXCEPT !.error = TRUE]

RECURSIVE CsvRun(_, _)
CsvRun(p, feed) ==
    IF p.error \/ feed = <<>> THEN p
    ELSE LET q == CsvChar(p, Head(feed))
         IN  CsvRun(IF Head(feed) = EOL THEN CsvEndLine(q) ELSE q, Tail(feed))

\* list(csv.reader(io.StringIO(text))): the rows, or csv.Error; input that
\* ends inside a quoted field gives the record read so far.
csv_reader(text) ==
    LET p == CsvRun(CsvStart, CsvFeed(text))
    IN  IF p.error THEN Raise("csv.Error")
        ELSE IF p.state = "IN_QUOTED_FIELD" \/ p.field # <<>>
        THEN Return(Append(p.rows, CsvSave(p).fields))
        ELSE Return(p.rows)

\* Line 213: the encodings tried in turn.
encodings_to_try == <<"utf-8", "latin-1", "cp1252", "iso-8859-1">>

\* raw_data.decode(encoding) for those encodings; on the bytes of the model
\* cp1252 and iso-8859-1 decode as latin-1 does.
CsvDecode(bytes, encoding) ==
    IF encoding = "utf-8" THEN Decode(bytes, "utf-8") ELSE Return(Latin1Chars(bytes))

\* Lines 217-231: the rows of the first encoding from the k-th on that
\* decodes the bytes and gives csv.reader at least one row; content stays
\* None (no rows, encoding "None") when no encoding does.
RECURSIVE TryEncodings(_, _)
TryEncodings(raw_data, k) ==
    IF k > Len(encodings_to_try) THEN [rows |-> <<>>, encoding |-> "None"]
    ELSE LET decoded == CsvDecode(raw_data, encodings_to_try[k])
             rows == IF decoded.kind = "raise" THEN decoded
                     ELSE csv_reader(decoded.value)
         IN  IF rows.kind = "return" /\ rows.value # <<>>
             THEN [rows |-> rows.value, encoding |-> encodings_to_try[k]]
             ELSE TryEncodings(raw_data, k + 1)

\* U+FFFD, which errors='replace' puts for a byte that does not decode.
Replacement == 65533

\* raw_data.decode(encoding, errors='replace'); of the bytes of the model
\* only 0xFF lies above 0x7F, and neither utf-8 nor ascii decodes it.
DecodeReplace(bytes, encoding) ==
    IF encoding \notin KnownCodecs THEN Raise("LookupError")
    ELSE IF encoding = "latin-1" THEN Return(Latin1Chars(bytes))
    ELSE Return([i \in 1..Len(bytes) |-> IF bytes[i] < 128 THEN bytes[i] ELSE Replacement])

\* text.split(sep) for a one-character separator
RECURSIVE Split(_, _)
Split(text, sep) ==
    IF \A i \in 1..Len(text) : text[i] # sep THEN <<text>>
    ELSE LET i == CHOOSE j \in 1..Len(text) :
                      text[j] = sep /\ \A l \in 1..(j - 1) : text[l] # sep
         IN  <<SubSeq(text, 1, i - 1)>> \o Split(SubSeq(text, i + 1, Len(text)), sep)

\* The one field of the row that stands for a failed fallback.
ErrorParsingField ==
    <<69, 114, 114, 111, 114, 32, 112, 97, 114, 115, 105, 110, 103, 32,
      67, 83, 86, 32, 102, 105, 108, 101>>

\* Lines 234-248: the fallback, splitting on newlines and commas the text
\* decoded with chardet's guess (latin-1 without a guess); blank lines go.
CsvFallback(raw_data, detected) ==
    LET encoding == IF detected = "None" THEN "latin-1" ELSE detected
        text == DecodeReplace(raw_data, encoding)
        lines == SelectSeq(Split(text.value, 10), LAMBDA line : Strip(line) # <<>>)
    IN  IF text.kind = "raise" THEN <<<<ErrorParsingField>>>>
        ELSE [i \in 1..Len(lines) |-> Split(lines[i], 44)]

\* str(n) for the small integers of the model
PyStr(n) ==
    IF n < 0 THEN <<45, 48 - n>>
    ELSE IF n < 10 THEN <<48 + n>>
    ELSE <<48 + (n \div 10), 48 + (n % 10)>>

\* sep.join(parts)
RECURSIVE Join(_, _)
Join(sep, parts) ==
    IF parts = <<>> THEN <<>>
    ELSE IF Len(parts) = 1 THEN parts[1]
    ELSE parts[1] \o sep \o Join(sep, Tail(parts))

\* Lines 255-262: "Headers: ...", "Sample data:", one "Row i: ..." line per
\* sample row and "Total rows: n".
RECURSIVE RowLines(_, _)
RowLines(sample_rows, i) ==
    IF i > Len(sample_rows) THEN <<>>
    ELSE <<82, 111, 119, 32>> \o PyStr(i) \o <<58, 32>>
         \o Join(<<44, 32>>, sample_rows[i]) \o <<10>> \o RowLines(sample_rows, i + 1)

CsvTextContent(headers, sample_rows, total) ==
    <<72, 101, 97, 100, 101, 114, 115, 58, 32>> \o Join(<<44, 32>>, headers)
    \o <<10, 10>> \o <<83, 97, 109, 112, 108, 101, 32, 100, 97, 116, 97, 58, 10>>
    \o RowLines(sample_rows, 1)
    \o <<10, 84, 111, 116, 97, 108, 32, 114, 111, 119, 115, 58, 32>> \o PyStr(total)

\* _extract_from_csv on the bytes of a file and chardet's guess for them:
\* the text, the metadata, and (beside them) the rows and the parts of the
\* summary. No step of the body raises, so the handler of lines 268-272
\* stays unused.
extract_from_csv_bytes(raw_data, detected, metadata) ==
    LET tried == TryEncodings(raw_data, 1)
        content == IF tried.encoding = "None" THEN CsvFallback(raw_data, detected)
                   ELSE tried.rows
        headers == IF content # <<>> THEN content[1] ELSE <<>>
        sample_rows == IF Len(content) > 1 THEN PySlice(content, 1, 6) ELSE <<>>
        total == Len(content) - 1
        text_content == CsvTextContent(headers, sample_rows, total)
    IN  [text |-> Content(text_content),
         metadata |-> [process_text_metadata(text_content, metadata) EXCEPT
                          !.description = [rows |-> total, columns |-> Len(headers)]],
         parse |-> IF tried.encoding = "None" THEN "fallback" ELSE tried.encoding,
         content |-> content,
         headers |-> headers,
         sample_rows |-> sample_rows,
         total |-> total]

\* The byte values of the CSV files: "a", the comma, the newline, the
\* quote, the carriage return and 0xFF.
CsvAlphabet == {97, 44, 10, 34, 13, 255}

\* Largest number of bytes of the CSV files made of every byte value.
MaxCsvLen == 4

\* Most lines of the longer CSV files.
MaxCsvRows == 8

\* n lines "a,a".
RECURSIVE CsvLines(_)
CsvLines(n) == IF n = 0 THEN <<>> ELSE <<97, 44, 97, 10>> \o CsvLines(n - 1)

\* The uploaded CSV files: every short byte string, and files of up to
\* MaxCsvRows lines that start well, with 0xFF or with a carriage return
\* inside a field.
CsvFiles ==
    UNION {[1..n -> CsvAlphabet] : n \in 0..MaxCsvLen}
    \cup {prefix \o CsvLines(n) :
            prefix \in {<<>>, <<255>>, <<97, 13, 97, 10>>, <<255, 13, 97, 10>>},
            n \in 0..MaxCsvRows}

\* What chardet.detect may report for the bytes: nothing for an empty file,
\* ascii for bytes below 0x80, else nothing, a single-byte codec or a codec
\* Python has not.
CsvDetected(bytes) ==
    IF bytes = <<>> THEN {"None"}
    ELSE IF \A i \in 1..Len(bytes) : bytes[i] < 128 THEN {"ascii"}
    ELSE {"None", "latin-1", "EUC-TW"}

\* One call of _extract_from_csv, as extract_text_from_file makes it for a
\* ".csv" upload.
CsvExtract ==
    /\ exInput = NoCall
    /\ \E raw_data \in CsvFiles :
          \E detected \in CsvDetected(raw_data) :
              /\ exInput' = [kind |-> "call", op |-> "_extract_from_csv",
                             raw_data |-> raw_data, detected |-> detected]
              /\ exResult' = Return(extract_from_csv_bytes(raw_data, detected,
                                        NewMetadata(Len(raw_data), <<114>>, ".csv")))
    /\ UNCHANGED <<chVars, storeVars>>

CsvExtracted == exInput.kind = "call" /\ exInput.op = "_extract_from_csv"

\* C24: for CSV bytes that are not valid UTF-8 the extractor does not
\* raise and returns, after the encodings of the list have been tried in
\* order, the rows of the manual split on newlines and commas.
C24_InvalidUtf8GivesSplitParse ==
    (CsvExtracted /\ ~Utf8Valid(exInput.raw_data)) =>
        /\ exResult.kind = "return"
        /\ exResult.value.parse = "fallback"
        /\ exResult.value.content = CsvFallback(exInput.raw_data, exInput.detected)


binary_content_types ==
    {"application/pdf", "application/msword", "application/vnd.openxmlformats",
     "application/vnd.ms-excel",
     "application/vnd.openxmlformats-officedocument.spreadsheetml.sheet",
     "application/zip", "application/x-zip-compressed", "application/octet-stream"}

\* The content types the clients send ("None": no content type).
BatchContentTypes ==
    {"None", "text/plain", "text/csv", "application/pdf", "application/vnd.ms-excel",
     "application/octet-stream",
     "application/vnd.openxmlformats-officedocument.wordprocessingml.document"}

\* content_type.startswith(binary_type), for the content types above
TypeStartsWith(content_type, binary_type) ==
    \/ content_type = binary_type
    \/ /\ content_type
            = "application/vnd.openxmlformats-officedocument.wordprocessingml.document"
       /\ binary_type = "application/vnd.openxmlformats"

\* The extensions of the uploaded filenames, without the dot ("": no dot).
BatchExtensions == {"csv", "CSV", "txt", "pdf", "docx", ""}

\* file.filename.split(".")[-1].lower()
BatchLower(ext) == IF ext = "CSV" THEN "csv" ELSE ext

\* f"Binary file content ({n} bytes)"
BinaryPlaceholder(n) ==
    <<66, 105, 110, 97, 114, 121, 32, 102, 105, 108, 101, 32, 99, 111, 110, 116,
      101, 110, 116, 32, 40>> \o PyStr(n) \o <<32, 98, 121, 116, 101, 115, 41>>

\* Lines 455-520 for one file: the content string, the is_binary flag, and
\* (beside them) whether the bytes went through a text decoder.
BatchContent(content, ext, content_type, detected) ==
    LET is_binary == \E binary_type \in binary_content_types :
                         content_type # "None" /\ TypeStartsWith(content_type, binary_type)
        file_extension == BatchLower(ext)
    IN  IF file_extension = "csv"
        THEN [content_str |->
                  extract_from_csv_bytes(content, detected,
                      NewMetadata(Len(content), <<114>>, ".csv")).text.chars,
              is_binary |-> is_binary, decoded |-> TRUE]
        ELSE IF ~is_binary
        THEN [content_str |->
                  TryExcept(Decode(content, "utf-8"), {"UnicodeDecodeError"},
                            Decode(content, "latin-1")).value,
              is_binary |-> FALSE, decoded |-> TRUE]
        ELSE [content_str |-> BinaryPlaceholder(Len(content)),
              is_binary |-> TRUE, decoded |-> FALSE]

\* POST /batch-upload with one file, no dataset and no tags: the document
\* is created by services/document_service.create_document.
BatchUploadFile ==
    /\ NotCalled
    /\ Len(dbDocuments) < MaxStored
    /\ \E content \in ByteSeqs, ext \in BatchExtensions, content_type \in BatchContentTypes :
          \E detected \in CsvDetected(content) :
          \E made \in {BatchContent(content, ext, content_type, detected)} :
              LET doc_id == DbDocId(Len(dbDocuments) + 1, clock)
                  new_doc == [id |-> doc_id, title |-> <<114>>,
                              content |-> made.content_str,
                              dataset_id |-> "None", dataset_name |-> "None",
                              tag_ids |-> <<>>,
                              metadata |-> [file_type |-> IF content_type # "None"
                                                          THEN content_type
                                                          ELSE BatchLower(ext),
                                            file_size |-> Len(content),
                                            is_binary |-> made.is_binary,
                                            file_extension |-> BatchLower(ext)],
                              is_favorite |-> FALSE, embedding_status |-> "pending",
                              created_at |-> clock, updated_at |-> "None"]
              IN  /\ opCall' = [kind |-> "call", op |-> "batch_upload_endpoint",
                                content |-> content, ext |-> ext,
                                content_type |-> content_type, detected |-> detected,
                                decoded |-> made.decoded]
                  /\ opResult' = Return([document_id |-> doc_id, success |-> TRUE])
                  /\ dbDocuments' = OrderedSet(dbDocuments, doc_id, new_doc)
    /\ UNCHANGED <<envVars, bkVars, aiVars, svcVars, mdlVars, thVars>>
    /\ UNCHANGED <<exVars, chVars>>

BatchUploaded == opCall.kind = "call" /\ opCall.op = "batch_upload_endpoint"

\* C26: in batch upload the bytes of a file whose content type is in the
\* binary list never go through a text decoder or parser: the stored
\* content is 'Binary file content (N bytes)' with N the size, and no
\* document stored with is_binary = true carries decoded text.
C26_BinaryNeverDecoded ==
    BatchUploaded =>
        LET stored == DbDocOf(opResult.value.document_id)
            listed == \E binary_type \in binary_content_types :
                          TypeStartsWith(opCall.content_type, binary_type)
        IN  /\ listed => /\ ~opCall.decoded
                         /\ stored.content = BinaryPlaceholder(Len(opCall.content))
            /\ stored.metadata.is_binary
                  => stored.content = BinaryPlaceholder(Len(opCall.content))

\* ------------------------------------------------------------------------
\* Two writers of documents.json (src/backend)
\*
\* Every writing method reads the whole list, changes it and writes the
\* whole list back; nothing locks the file between the two.  Here each
\* writer's _read_documents and _write_documents are separate steps, as they
\* are for writers in different threads or processes on one storage_path.

\* A record as json.load returns it: upload_date is a string.
StoredDocument(id) ==
    [id |-> id, document_type |-> ".txt", status |-> "pending",
     upload_date |-> "str", processing_error |-> "None"]

\* A documents.json that holds two documents when the writers start.
BkSeeded ==
    /\ bkFile = [valid |-> TRUE, documents |-> <<StoredDocument(1), StoredDocument(2)>>]
    /\ bkUploads = {1, 2}
    /\ bkWriters = [w \in Writers |-> WriterIdle]

\* The ids the writers name: the two stored ones and one that is absent.
WriterIds == {1, 2, 3}

\* The operations a writer runs.
WriterOps ==
    [op : {"update_document_status"}, id : WriterIds,
     status : {"processing", "completed", "failed"}]
        \cup [op : {"delete_document"}, id : WriterIds, status : {"None"}]

\* documents = self._read_documents(): the writer's own copy of the list.
WriterRead(w) ==
    /\ bkWriters[w].pc = "idle"
    /\ \E op \in WriterOps :
           bkWriters' = [bkWriters EXCEPT ![w] =
               [pc |-> "read", op |-> op, documents |-> _read_documents(bkFile)]]
    /\ UNCHANGED <<bkFile, bkUploads>>
    /\ UNCHANGED <<envVars, aiVars, svcVars, mdlVars, dbVars, opVars, thVars>>
    /\ UNCHANGED <<exVars, chVars>>

\* The rest of the method: the loop over the writer's copy and, when the id
\* is in it, self._write_documents(documents) (delete_document then removes
\* the document's directory).
WriterWrite(w) ==
    /\ bkWriters[w].pc = "read"
    /\ LET op == bkWriters[w].op
           docs == bkWriters[w].documents
           copy == [valid |-> TRUE, documents |-> docs]
           found == \E i \in 1..Len(docs) : docs[i].id = op.id
           written == IF op.op = "delete_document"
                      THEN _write_documents(SelectSeq(docs, LAMBDA d : d.id # op.id))
                      ELSE update_document_status(copy, op.id, op.status, "None")
       IN  /\ bkWriters' = [bkWriters EXCEPT ![w] = [pc |-> "done", op |-> op, found |-> found]]
           /\ IF found
              THEN /\ bkFile' = written.file
                   /\ bkUploads' = IF op.op = "delete_document"
                                   THEN bkUploads \ {op.id} ELSE bkUploads
              ELSE UNCHANGED <<bkFile, bkUploads>>
    /\ UNCHANGED <<envVars, aiVars, svcVars, mdlVars, dbVars, opVars, thVars>>
    /\ UNCHANGED <<exVars, chVars>>

WritersNext == \E w \in Writers : WriterRead(w) \/ WriterWrite(w)

\* What a finished operation leaves in the list: the status it set, or no
\* record of the id it deleted.
WriterApplied(op, docs) ==
    IF op.op = "delete_document"
    THEN \A i \in 1..Len(docs) : docs[i].id # op.id
    ELSE \E i \in 1..Len(docs) : docs[i].id = op.id /\ docs[i].status = op.status

\* Both writers have returned, each found its document, and the two
\* documents are different.
WritersDoneOnDifferent ==
    /\ \A w \in Writers : bkWriters[w].pc = "done" /\ bkWriters[w].found
    /\ bkWriters[1].op.id # bkWriters[2].op.id

MaxUuids == 3

\* str(uuid.uuid4()) of the n-th draw, for a dataset or a tag.
UuidStr(n) == <<"u1", "u2", "u3">>[n]

\* The ids a caller can name: the ones drawn so far.
KnownIds == {UuidStr(n) : n \in 1..uuidNext}

\* The tags lists a caller gives: at most two ids of the tags there are,
\* repeats included ("u1,u1".split(",")).
TagLists ==
    {<<>>} \cup {<<a>> : a \in DOMAIN tags} \cup {<<a, b>> : a, b \in DOMAIN tags}

\* The dataset a caller names: none, or one of the datasets there are.
DatasetChoices == DOMAIN datasets \cup {"None"}

\* create_dataset: a record with document_count 0 under a fresh id.
SvcCreateDataset ==
    /\ uuidNext < MaxUuids
    /\ opCall' = [kind |-> "call", op |-> "service.create_dataset"]
    /\ opResult' = Return(UuidStr(uuidNext + 1))
    /\ uuidNext' = uuidNext + 1
    /\ datasets' = DictSet(datasets, UuidStr(uuidNext + 1), [document_count |-> 0])
    /\ UNCHANGED <<clock, documents, metadataFile, tags, contentFiles, embFiles,
                   failedEmbeddings>>
    /\ UNCHANGED <<bkVars, aiVars, mdlVars, dbVars, thVars>>
    /\ UNCHANGED <<exVars, chVars>>

\* create_tag: a record with document_count 0 under a fresh id.
SvcCreateTag ==
    /\ uuidNext < MaxUuids
    /\ opCall' = [kind |-> "call", op |-> "service.create_tag"]
    /\ opResult' = Return(UuidStr(uuidNext + 1))
    /\ uuidNext' = uuidNext + 1
    /\ tags' = DictSet(tags, UuidStr(uuidNext + 1), [document_count |-> 0])
    /\ UNCHANGED <<clock, documents, metadataFile, datasets, contentFiles, embFiles,
                   failedEmbeddings>>
    /\ UNCHANGED <<bkVars, aiVars, mdlVars, dbVars, thVars>>
    /\ UNCHANGED <<exVars, chVars>>

\* delete_dataset: False for an unknown id; else the dataset_id of its
\* documents becomes None and the dataset is removed.
SvcDeleteDataset ==
    \E dataset_id \in KnownIds :
        LET cleared == [i \in 1..Len(documents) |->
                           IF documents[i].dataset_id = dataset_id
                           THEN [documents[i] EXCEPT !.dataset_id = "None"]
                           ELSE documents[i]]
        IN  /\ opCall' = [kind |-> "call", op |-> "service.delete_dataset",
                          dataset_id |-> dataset_id]
            /\ IF dataset_id \notin DOMAIN datasets
               THEN /\ opResult' = Return(FALSE)
                    /\ UNCHANGED <<documents, metadataFile, datasets>>
               ELSE /\ opResult' = Return(TRUE)
                    /\ documents' = cleared
                    /\ metadataFile' = cleared
                    /\ datasets' = DictDel(datasets, dataset_id)
            /\ UNCHANGED <<tags, contentFiles, embFiles, failedEmbeddings>>
            /\ UNCHANGED <<envVars, bkVars, aiVars, mdlVars, dbVars, thVars>>
            /\ UNCHANGED <<exVars, chVars>>

\* list.remove(x): the list without its first x.
ListRemove(list, x) ==
    LET hits == {i \in 1..Len(list) : list[i] = x}
        first == CHOOSE i \in hits : \A j \in hits : i <= j
    IN  IF hits = {} THEN list
        ELSE [i \in 1..(Len(list) - 1) |-> IF i < first THEN list[i] ELSE list[i + 1]]

\* delete_tag: False for an unknown id; else doc["tags"].remove(tag_id) on
\* every document that has it, and the tag is removed.
SvcDeleteTag ==
    \E tag_id \in KnownIds :
        LET untagged == [i \in 1..Len(documents) |->
                            [documents[i] EXCEPT !.tags = ListRemove(@, tag_id)]]
        IN  /\ opCall' = [kind |-> "call", op |-> "service.delete_tag", tag_id |-> tag_id]
            /\ IF tag_id \notin DOMAIN tags
               THEN /\ opResult' = Return(FALSE)
                    /\ UNCHANGED <<documents, metadataFile, tags>>
               ELSE /\ opResult' = Return(TRUE)
                    /\ documents' = untagged
                    /\ metadataFile' = untagged
                    /\ tags' = DictDel(tags, tag_id)
            /\ UNCHANGED <<datasets, contentFiles, embFiles, failedEmbeddings>>
            /\ UNCHANGED <<envVars, bkVars, aiVars, mdlVars, dbVars, thVars>>
            /\ UNCHANGED <<exVars, chVars>>

\* set(list)
ListSet(list) == {list[i] : i \in 1..Len(list)}

\* update_document(doc_id, updates): updates.keys are the keys of the dict,
\* the other fields their values. None for an unknown id. A new content is
\* written to the content file and counted into the metadata; the tag and
\* dataset counts follow the sets of old and new ids; then every key of
\* updates that the record has is assigned.
update_document(doc_id, updates) ==
    IF DocIndex(documents, doc_id) = {}
    THEN [documents |-> documents, metadataFile |-> metadataFile,
          contentFiles |-> contentFiles, datasets |-> datasets, tags |-> tags,
          outcome |-> Return("None")]
    ELSE LET i == CHOOSE j \in DocIndex(documents, doc_id) : TRUE
             document == documents[i]
             has(key) == key \in updates.keys
             old_tags == ListSet(document.tags)
             new_tags == ListSet(updates.tags)
             old_dataset_id == document.dataset_id
             new_dataset_id == updates.dataset_id
             moved == has("dataset_id") /\ new_dataset_id # old_dataset_id
             updated ==
                 [document EXCEPT
                     !.metadata = IF has("content")
                                  THEN process_text_metadata(updates.content, @) ELSE @,
                     !.content = IF has("content") THEN Content(updates.content) ELSE @,
                     !.tags = IF has("tags") THEN updates.tags ELSE @,
                     !.dataset_id = IF has("dataset_id") THEN new_dataset_id ELSE @]
             saved == [documents EXCEPT ![i] = updated]
         IN  [documents |-> saved,
              metadataFile |-> saved,
              contentFiles |-> IF has("content")
                               THEN DictSet(contentFiles, doc_id, Content(updates.content))
                               ELSE contentFiles,
              datasets |-> [d \in DOMAIN datasets |->
                               [datasets[d] EXCEPT !.document_count =
                                   IF moved /\ d = old_dataset_id /\ d = new_dataset_id THEN @
                                   ELSE IF moved /\ d = old_dataset_id THEN Max(0, @ - 1)
                                   ELSE IF moved /\ d = new_dataset_id THEN @ + 1
                                   ELSE @]],
              tags |-> [t \in DOMAIN tags |->
                           [tags[t] EXCEPT !.document_count =
                               IF ~has("tags") THEN @
                               ELSE IF t \in old_tags \ new_tags /\ @ > 0 THEN @ - 1
                               ELSE IF t \in new_tags \ old_tags THEN @ + 1
                               ELSE @]],
              outcome |-> Return(updated)]

\* The new content given to update_document: "z".
UpdateContents == {<<122>>}

\* The updates dicts: any of the keys content, tags and dataset_id.
Updates ==
    {[keys |-> k, content |-> c, tags |-> t, dataset_id |-> d] :
        k \in SUBSET {"content", "tags", "dataset_id"},
        c \in UpdateContents \cup {<<>>},
        t \in TagLists,
        d \in DatasetChoices}

\* document_service.update_document(doc_id, updates); the fields of a key
\* that is not in the dict are left at one value.
SvcUpdateDocument ==
    \E doc_id \in 1..MaxUuids, updates \in Updates :
        LET done == update_document(doc_id, updates)
        IN  /\ ("content" \in updates.keys) = (updates.content # <<>>)
            /\ ("tags" \notin updates.keys) => updates.tags = <<>>
            /\ ("dataset_id" \notin updates.keys) => updates.dataset_id = "None"
            /\ opCall' = [kind |-> "call", op |-> "service.update_document",
                          doc_id |-> doc_id, keys |-> updates.keys]
            /\ opResult' = done.outcome
            /\ documents' = done.documents
            /\ metadataFile' = done.metadataFile
            /\ contentFiles' = done.contentFiles
            /\ datasets' = done.datasets
            /\ tags' = done.tags
            /\ UNCHANGED <<embFiles, failedEmbeddings>>
            /\ UNCHANGED <<envVars, bkVars, aiVars, mdlVars, dbVars, thVars>>
            /\ UNCHANGED <<exVars, chVars>>

\* /documents/upload of "A.txt" holding "A", with a dataset and tags.
SvcUploadTagged ==
    \E dataset_id \in DatasetChoices, tag_ids \in TagLists :
        /\ uuidNext < MaxUuids
        /\ Len(documents) < MaxDocs
        /\ SvcUploaded(TextUpload(<<65>>, <<65>>, dataset_id, tag_ids),
                       dataset_id, tag_ids, TRUE)

\* document_service.delete_document(doc_id), the files removable.
SvcDeleteCounted ==
    \E doc_id \in 1..MaxUuids :
        LET done == delete_document(doc_id, TRUE, TRUE)
        IN  /\ opCall' = [kind |-> "call", op |-> "service.delete_document",
                          doc_id |-> doc_id, remove_ok |-> TRUE, save_ok |-> TRUE]
            /\ opResult' = done.outcome
            /\ documents' = done.documents
            /\ metadataFile' = done.metadataFile
            /\ contentFiles' = done.contentFiles
            /\ embFiles' = done.embFiles
            /\ datasets' = done.datasets
            /\ tags' = done.tags
            /\ UNCHANGED failedEmbeddings
            /\ UNCHANGED <<envVars, bkVars, aiVars, mdlVars, dbVars, thVars>>
            /\ UNCHANGED <<exVars, chVars>>

CountsNext ==
    \/ SvcCreateDataset
    \/ SvcCreateTag
    \/ SvcUploadTagged
    \/ SvcUpdateDocument
    \/ SvcDeleteCounted
    \/ SvcDeleteDataset
    \/ SvcDeleteTag

\* How many stored documents are in the dataset, or carry the tag.
DatasetDocuments(d) ==
    Cardinality({i \in 1..Len(documents) : documents[i].dataset_id = d})
TagDocuments(t) ==
    Cardinality({i \in 1..Len(documents) : t \in ListSet(documents[i].tags)})

StaleNext == SvcUploadTagged \/ SvcGenerateEmbedding \/ SvcUpdateDocument \/ SvcSearch

Init == ExtractInit /\ ChunkIdle /\ StoreInit

\* The same with _chunk_text called on some input and configuration.
InitChunk == ExtractInit /\ ChunkInit /\ StoreInit

\* extract_text_from_file on every upload.
SpecExtract == Init /\ [][ExtractCall]_vars

\* _chunk_text on every input and configuration.
SpecChunk == InitChunk /\ [][ChunkNext]_vars

\* The three upload paths, each on its own store.
UploadNext == BkCreateDocument \/ AiUploadFile \/ SvcUploadDocument

SpecUpload == Init /\ [][UploadNext]_vars

\* The document service: uploads of text files, embeddings, searches and
\* restarts.
SpecSearch == Init /\ [][SearchNext]_vars

\* Threads calling get_sentence_transformer at the same time.
SpecThreads == Init /\ [][ThreadsNext]_vars

\* Creations and deletions in the two stores that build ids from the clock.
SpecIds == Init /\ [][IdsNext]_vars

\* Uploads, embeddings, deletions and restarts in the three stores.
SpecDelete == Init /\ [][DeleteNext]_vars

\* The word count and reading time of texts, on the three paths.
SpecAnalysis == Init /\ [][AnalysisNext]_vars

\* calculate_similarity on every pair of small vectors.
SpecSimilarity == Init /\ [][CalculateSimilarity]_vars

\* The context assembled from every number of chunks under every cap.
SpecContext == Init /\ [][ContextNext]_vars

\* Creations, deletions and searches on the older document service.
SpecDbSearch == Init /\ [][DbSearchNext]_vars

\* _extract_from_csv on every CSV file.
SpecCsv == Init /\ [][CsvExtract]_vars

\* One file posted to /batch-upload.
SpecBatch == Init /\ [][BatchUploadFile]_vars

\* Two writers on a documents.json that holds two documents.
InitWriters ==
    /\ ExtractInit /\ ChunkIdle
    /\ EnvInit /\ BkSeeded /\ AiInit /\ SvcInit /\ DbInit /\ MdlInit /\ ThInit

SpecWriters == InitWriters /\ [][WritersNext]_vars

SpecCounts == Init /\ [][CountsNext]_vars

SpecStale == Init /\ [][StaleNext]_vars

====
